---------------------------- MODULE Spec2Model ----------------------------
(***************************************************************************)
(* pie_mixer (src/src/main.rs): discovery of PipeWire nodes and ports into *)
(* a shared table, the sync/done completion barrier, the selection of the  *)
(* SPDIF inputs and output, the per-channel pairing and the creation of    *)
(* the links.                                                              *)
(*                                                                         *)
(* Strings that the program searches, upper-cases, parses or formats       *)
(* (descriptions, media classes, the node.id property, the link            *)
(* properties) are sequences of one-character strings.  Strings that it    *)
(* only compares for equality (channel names, port directions) are TLA+    *)
(* strings.  Option<T> is a sequence of length at most one.  A character   *)
(* is a one-character string when it is ASCII and the name of its code     *)
(* point ("U+00DF") when it is not.                                        *)
(***************************************************************************)
EXTENDS Integers, Sequences, FiniteSets, TLC

\* ------------------------------------------------------------------------
\* Option<T>
\* ------------------------------------------------------------------------
None == << >>
Some(x) == << x >>
is_some(o) == Len(o) = 1
unwrap_or(o, d) == IF Len(o) = 1 THEN o[1] ELSE d
\* Option::or / Option::or_else: the first of the two that is Some
or_else(o, p) == IF Len(o) = 1 THEN o ELSE p

\* ------------------------------------------------------------------------
\* String operations of the standard library used by main
\* ------------------------------------------------------------------------
LowerCase == << "a","b","c","d","e","f","g","h","i","j","k","l","m",
                "n","o","p","q","r","s","t","u","v","w","x","y","z" >>
UpperCase == << "A","B","C","D","E","F","G","H","I","J","K","L","M",
                "N","O","P","Q","R","S","T","U","V","W","X","Y","Z" >>
DigitChars == << "0","1","2","3","4","5","6","7","8","9" >>

IndexIn(c, table) == CHOOSE i \in 1..Len(table) : table[i] = c
InTable(c, table) == \E i \in 1..Len(table) : table[i] = c

\* the characters beyond ASCII that have an upper case other than
\* themselves, in code-point order, and below, at the same positions, the
\* characters their upper case consists of: one as a rule, two or three for
\* sharp s, the ligatures and some accented letters
CaseLower == <<
    "U+00B5", "U+00DF", "U+00E0", "U+00E1", "U+00E2", "U+00E3", "U+00E4",
    "U+00E5", "U+00E6", "U+00E7", "U+00E8", "U+00E9", "U+00EA", "U+00EB",
    "U+00EC", "U+00ED", "U+00EE", "U+00EF", "U+00F0", "U+00F1", "U+00F2",
    "U+00F3", "U+00F4", "U+00F5", "U+00F6", "U+00F8", "U+00F9", "U+00FA",
    "U+00FB", "U+00FC", "U+00FD", "U+00FE", "U+00FF", "U+0101", "U+0103",
    "U+0105", "U+0107", "U+0109", "U+010B", "U+010D", "U+010F", "U+0111",
    "U+0113", "U+0115", "U+0117", "U+0119", "U+011B", "U+011D", "U+011F",
    "U+0121", "U+0123", "U+0125", "U+0127", "U+0129", "U+012B", "U+012D",
    "U+012F", "U+0131", "U+0133", "U+0135", "U+0137", "U+013A", "U+013C",
    "U+013E", "U+0140", "U+0142", "U+0144", "U+0146", "U+0148", "U+0149",
    "U+014B", "U+014D", "U+014F", "U+0151", "U+0153", "U+0155", "U+0157",
    "U+0159", "U+015B", "U+015D", "U+015F", "U+0161", "U+0163", "U+0165",
    "U+0167", "U+0169", "U+016B", "U+016D", "U+016F", "U+0171", "U+0173",
    "U+0175", "U+0177", "U+017A", "U+017C", "U+017E", "U+017F", "U+0180",
    "U+0183", "U+0185", "U+0188", "U+018C", "U+0192", "U+0195", "U+0199",
    "U+019A", "U+019B", "U+019E", "U+01A1", "U+01A3", "U+01A5", "U+01A8",
    "U+01AD", "U+01B0", "U+01B4", "U+01B6", "U+01B9", "U+01BD", "U+01BF",
    "U+01C5", "U+01C6", "U+01C8", "U+01C9", "U+01CB", "U+01CC", "U+01CE",
    "U+01D0", "U+01D2", "U+01D4", "U+01D6", "U+01D8", "U+01DA", "U+01DC",
    "U+01DD", "U+01DF", "U+01E1", "U+01E3", "U+01E5", "U+01E7", "U+01E9",
    "U+01EB", "U+01ED", "U+01EF", "U+01F0", "U+01F2", "U+01F3", "U+01F5",
    "U+01F9", "U+01FB", "U+01FD", "U+01FF", "U+0201", "U+0203", "U+0205",
    "U+0207", "U+0209", "U+020B", "U+020D", "U+020F", "U+0211", "U+0213",
    "U+0215", "U+0217", "U+0219", "U+021B", "U+021D", "U+021F", "U+0223",
    "U+0225", "U+0227", "U+0229", "U+022B", "U+022D", "U+022F", "U+0231",
    "U+0233", "U+023C", "U+023F", "U+0240", "U+0242", "U+0247", "U+0249",
    "U+024B", "U+024D", "U+024F", "U+0250", "U+0251", "U+0252", "U+0253",
    "U+0254", "U+0256", "U+0257", "U+0259", "U+025B", "U+025C", "U+0260",
    "U+0261", "U+0263", "U+0264", "U+0265", "U+0266", "U+0268", "U+0269",
    "U+026A", "U+026B", "U+026C", "U+026F", "U+0271", "U+0272", "U+0275",
    "U+027D", "U+0280", "U+0282", "U+0283", "U+0287", "U+0288", "U+0289",
    "U+028A", "U+028B", "U+028C", "U+0292", "U+029D", "U+029E", "U+0345",
    "U+0371", "U+0373", "U+0377", "U+037B", "U+037C", "U+037D", "U+0390",
    "U+03AC", "U+03AD", "U+03AE", "U+03AF", "U+03B0", "U+03B1", "U+03B2",
    "U+03B3", "U+03B4", "U+03B5", "U+03B6", "U+03B7", "U+03B8", "U+03B9",
    "U+03BA", "U+03BB", "U+03BC", "U+03BD", "U+03BE", "U+03BF", "U+03C0",
    "U+03C1", "U+03C2", "U+03C3", "U+03C4", "U+03C5", "U+03C6", "U+03C7",
    "U+03C8", "U+03C9", "U+03CA", "U+03CB", "U+03CC", "U+03CD", "U+03CE",
    "U+03D0", "U+03D1", "U+03D5", "U+03D6", "U+03D7", "U+03D9", "U+03DB",
    "U+03DD", "U+03DF", "U+03E1", "U+03E3", "U+03E5", "U+03E7", "U+03E9",
    "U+03EB", "U+03ED", "U+03EF", "U+03F0", "U+03F1", "U+03F2", "U+03F3",
    "U+03F5", "U+03F8", "U+03FB", "U+0430", "U+0431", "U+0432", "U+0433",
    "U+0434", "U+0435", "U+0436", "U+0437", "U+0438", "U+0439", "U+043A",
    "U+043B", "U+043C", "U+043D", "U+043E", "U+043F", "U+0440", "U+0441",
    "U+0442", "U+0443", "U+0444", "U+0445", "U+0446", "U+0447", "U+0448",
    "U+0449", "U+044A", "U+044B", "U+044C", "U+044D", "U+044E", "U+044F",
    "U+0450", "U+0451", "U+0452", "U+0453", "U+0454", "U+0455", "U+0456",
    "U+0457", "U+0458", "U+0459", "U+045A", "U+045B", "U+045C", "U+045D",
    "U+045E", "U+045F", "U+0461", "U+0463", "U+0465", "U+0467", "U+0469",
    "U+046B", "U+046D", "U+046F", "U+0471", "U+0473", "U+0475", "U+0477",
    "U+0479", "U+047B", "U+047D", "U+047F", "U+0481", "U+048B", "U+048D",
    "U+048F", "U+0491", "U+0493", "U+0495", "U+0497", "U+0499", "U+049B",
    "U+049D", "U+049F", "U+04A1", "U+04A3", "U+04A5", "U+04A7", "U+04A9",
    "U+04AB", "U+04AD", "U+04AF", "U+04B1", "U+04B3", "U+04B5", "U+04B7",
    "U+04B9", "U+04BB", "U+04BD", "U+04BF", "U+04C2", "U+04C4", "U+04C6",
    "U+04C8", "U+04CA", "U+04CC", "U+04CE", "U+04CF", "U+04D1", "U+04D3",
    "U+04D5", "U+04D7", "U+04D9", "U+04DB", "U+04DD", "U+04DF", "U+04E1",
    "U+04E3", "U+04E5", "U+04E7", "U+04E9", "U+04EB", "U+04ED", "U+04EF",
    "U+04F1", "U+04F3", "U+04F5", "U+04F7", "U+04F9", "U+04FB", "U+04FD",
    "U+04FF", "U+0501", "U+0503", "U+0505", "U+0507", "U+0509", "U+050B",
    "U+050D", "U+050F", "U+0511", "U+0513", "U+0515", "U+0517", "U+0519",
    "U+051B", "U+051D", "U+051F", "U+0521", "U+0523", "U+0525", "U+0527",
    "U+0529", "U+052B", "U+052D", "U+052F", "U+0561", "U+0562", "U+0563",
    "U+0564", "U+0565", "U+0566", "U+0567", "U+0568", "U+0569", "U+056A",
    "U+056B", "U+056C", "U+056D", "U+056E", "U+056F", "U+0570", "U+0571",
    "U+0572", "U+0573", "U+0574", "U+0575", "U+0576", "U+0577", "U+0578",
    "U+0579", "U+057A", "U+057B", "U+057C", "U+057D", "U+057E", "U+057F",
    "U+0580", "U+0581", "U+0582", "U+0583", "U+0584", "U+0585", "U+0586",
    "U+0587", "U+10D0", "U+10D1", "U+10D2", "U+10D3", "U+10D4", "U+10D5",
    "U+10D6", "U+10D7", "U+10D8", "U+10D9", "U+10DA", "U+10DB", "U+10DC",
    "U+10DD", "U+10DE", "U+10DF", "U+10E0", "U+10E1", "U+10E2", "U+10E3",
    "U+10E4", "U+10E5", "U+10E6", "U+10E7", "U+10E8", "U+10E9", "U+10EA",
    "U+10EB", "U+10EC", "U+10ED", "U+10EE", "U+10EF", "U+10F0", "U+10F1",
    "U+10F2", "U+10F3", "U+10F4", "U+10F5", "U+10F6", "U+10F7", "U+10F8",
    "U+10F9", "U+10FA", "U+10FD", "U+10FE", "U+10FF", "U+13F8", "U+13F9",
    "U+13FA", "U+13FB", "U+13FC", "U+13FD", "U+1C80", "U+1C81", "U+1C82",
    "U+1C83", "U+1C84", "U+1C85", "U+1C86", "U+1C87", "U+1C88", "U+1C8A",
    "U+1D79", "U+1D7D", "U+1D8E", "U+1E01", "U+1E03", "U+1E05", "U+1E07",
    "U+1E09", "U+1E0B", "U+1E0D", "U+1E0F", "U+1E11", "U+1E13", "U+1E15",
    "U+1E17", "U+1E19", "U+1E1B", "U+1E1D", "U+1E1F", "U+1E21", "U+1E23",
    "U+1E25", "U+1E27", "U+1E29", "U+1E2B", "U+1E2D", "U+1E2F", "U+1E31",
    "U+1E33", "U+1E35", "U+1E37", "U+1E39", "U+1E3B", "U+1E3D", "U+1E3F",
    "U+1E41", "U+1E43", "U+1E45", "U+1E47", "U+1E49", "U+1E4B", "U+1E4D",
    "U+1E4F", "U+1E51", "U+1E53", "U+1E55", "U+1E57", "U+1E59", "U+1E5B",
    "U+1E5D", "U+1E5F", "U+1E61", "U+1E63", "U+1E65", "U+1E67", "U+1E69",
    "U+1E6B", "U+1E6D", "U+1E6F", "U+1E71", "U+1E73", "U+1E75", "U+1E77",
    "U+1E79", "U+1E7B", "U+1E7D", "U+1E7F", "U+1E81", "U+1E83", "U+1E85",
    "U+1E87", "U+1E89", "U+1E8B", "U+1E8D", "U+1E8F", "U+1E91", "U+1E93",
    "U+1E95", "U+1E96", "U+1E97", "U+1E98", "U+1E99", "U+1E9A", "U+1E9B",
    "U+1EA1", "U+1EA3", "U+1EA5", "U+1EA7", "U+1EA9", "U+1EAB", "U+1EAD",
    "U+1EAF", "U+1EB1", "U+1EB3", "U+1EB5", "U+1EB7", "U+1EB9", "U+1EBB",
    "U+1EBD", "U+1EBF", "U+1EC1", "U+1EC3", "U+1EC5", "U+1EC7", "U+1EC9",
    "U+1ECB", "U+1ECD", "U+1ECF", "U+1ED1", "U+1ED3", "U+1ED5", "U+1ED7",
    "U+1ED9", "U+1EDB", "U+1EDD", "U+1EDF", "U+1EE1", "U+1EE3", "U+1EE5",
    "U+1EE7", "U+1EE9", "U+1EEB", "U+1EED", "U+1EEF", "U+1EF1", "U+1EF3",
    "U+1EF5", "U+1EF7", "U+1EF9", "U+1EFB", "U+1EFD", "U+1EFF", "U+1F00",
    "U+1F01", "U+1F02", "U+1F03", "U+1F04", "U+1F05", "U+1F06", "U+1F07",
    "U+1F10", "U+1F11", "U+1F12", "U+1F13", "U+1F14", "U+1F15", "U+1F20",
    "U+1F21", "U+1F22", "U+1F23", "U+1F24", "U+1F25", "U+1F26", "U+1F27",
    "U+1F30", "U+1F31", "U+1F32", "U+1F33", "U+1F34", "U+1F35", "U+1F36",
    "U+1F37", "U+1F40", "U+1F41", "U+1F42", "U+1F43", "U+1F44", "U+1F45",
    "U+1F50", "U+1F51", "U+1F52", "U+1F53", "U+1F54", "U+1F55", "U+1F56",
    "U+1F57", "U+1F60", "U+1F61", "U+1F62", "U+1F63", "U+1F64", "U+1F65",
    "U+1F66", "U+1F67", "U+1F70", "U+1F71", "U+1F72", "U+1F73", "U+1F74",
    "U+1F75", "U+1F76", "U+1F77", "U+1F78", "U+1F79", "U+1F7A", "U+1F7B",
    "U+1F7C", "U+1F7D", "U+1F80", "U+1F81", "U+1F82", "U+1F83", "U+1F84",
    "U+1F85", "U+1F86", "U+1F87", "U+1F88", "U+1F89", "U+1F8A", "U+1F8B",
    "U+1F8C", "U+1F8D", "U+1F8E", "U+1F8F", "U+1F90", "U+1F91", "U+1F92",
    "U+1F93", "U+1F94", "U+1F95", "U+1F96", "U+1F97", "U+1F98", "U+1F99",
    "U+1F9A", "U+1F9B", "U+1F9C", "U+1F9D", "U+1F9E", "U+1F9F", "U+1FA0",
    "U+1FA1", "U+1FA2", "U+1FA3", "U+1FA4", "U+1FA5", "U+1FA6", "U+1FA7",
    "U+1FA8", "U+1FA9", "U+1FAA", "U+1FAB", "U+1FAC", "U+1FAD", "U+1FAE",
    "U+1FAF", "U+1FB0", "U+1FB1", "U+1FB2", "U+1FB3", "U+1FB4", "U+1FB6",
    "U+1FB7", "U+1FBC", "U+1FBE", "U+1FC2", "U+1FC3", "U+1FC4", "U+1FC6",
    "U+1FC7", "U+1FCC", "U+1FD0", "U+1FD1", "U+1FD2", "U+1FD3", "U+1FD6",
    "U+1FD7", "U+1FE0", "U+1FE1", "U+1FE2", "U+1FE3", "U+1FE4", "U+1FE5",
    "U+1FE6", "U+1FE7", "U+1FF2", "U+1FF3", "U+1FF4", "U+1FF6", "U+1FF7",
    "U+1FFC", "U+214E", "U+2170", "U+2171", "U+2172", "U+2173", "U+2174",
    "U+2175", "U+2176", "U+2177", "U+2178", "U+2179", "U+217A", "U+217B",
    "U+217C", "U+217D", "U+217E", "U+217F", "U+2184", "U+24D0", "U+24D1",
    "U+24D2", "U+24D3", "U+24D4", "U+24D5", "U+24D6", "U+24D7", "U+24D8",
    "U+24D9", "U+24DA", "U+24DB", "U+24DC", "U+24DD", "U+24DE", "U+24DF",
    "U+24E0", "U+24E1", "U+24E2", "U+24E3", "U+24E4", "U+24E5", "U+24E6",
    "U+24E7", "U+24E8", "U+24E9", "U+2C30", "U+2C31", "U+2C32", "U+2C33",
    "U+2C34", "U+2C35", "U+2C36", "U+2C37", "U+2C38", "U+2C39", "U+2C3A",
    "U+2C3B", "U+2C3C", "U+2C3D", "U+2C3E", "U+2C3F", "U+2C40", "U+2C41",
    "U+2C42", "U+2C43", "U+2C44", "U+2C45", "U+2C46", "U+2C47", "U+2C48",
    "U+2C49", "U+2C4A", "U+2C4B", "U+2C4C", "U+2C4D", "U+2C4E", "U+2C4F",
    "U+2C50", "U+2C51", "U+2C52", "U+2C53", "U+2C54", "U+2C55", "U+2C56",
    "U+2C57", "U+2C58", "U+2C59", "U+2C5A", "U+2C5B", "U+2C5C", "U+2C5D",
    "U+2C5E", "U+2C5F", "U+2C61", "U+2C65", "U+2C66", "U+2C68", "U+2C6A",
    "U+2C6C", "U+2C73", "U+2C76", "U+2C81", "U+2C83", "U+2C85", "U+2C87",
    "U+2C89", "U+2C8B", "U+2C8D", "U+2C8F", "U+2C91", "U+2C93", "U+2C95",
    "U+2C97", "U+2C99", "U+2C9B", "U+2C9D", "U+2C9F", "U+2CA1", "U+2CA3",
    "U+2CA5", "U+2CA7", "U+2CA9", "U+2CAB", "U+2CAD", "U+2CAF", "U+2CB1",
    "U+2CB3", "U+2CB5", "U+2CB7", "U+2CB9", "U+2CBB", "U+2CBD", "U+2CBF",
    "U+2CC1", "U+2CC3", "U+2CC5", "U+2CC7", "U+2CC9", "U+2CCB", "U+2CCD",
    "U+2CCF", "U+2CD1", "U+2CD3", "U+2CD5", "U+2CD7", "U+2CD9", "U+2CDB",
    "U+2CDD", "U+2CDF", "U+2CE1", "U+2CE3", "U+2CEC", "U+2CEE", "U+2CF3",
    "U+2D00", "U+2D01", "U+2D02", "U+2D03", "U+2D04", "U+2D05", "U+2D06",
    "U+2D07", "U+2D08", "U+2D09", "U+2D0A", "U+2D0B", "U+2D0C", "U+2D0D",
    "U+2D0E", "U+2D0F", "U+2D10", "U+2D11", "U+2D12", "U+2D13", "U+2D14",
    "U+2D15", "U+2D16", "U+2D17", "U+2D18", "U+2D19", "U+2D1A", "U+2D1B",
    "U+2D1C", "U+2D1D", "U+2D1E", "U+2D1F", "U+2D20", "U+2D21", "U+2D22",
    "U+2D23", "U+2D24", "U+2D25", "U+2D27", "U+2D2D", "U+A641", "U+A643",
    "U+A645", "U+A647", "U+A649", "U+A64B", "U+A64D", "U+A64F", "U+A651",
    "U+A653", "U+A655", "U+A657", "U+A659", "U+A65B", "U+A65D", "U+A65F",
    "U+A661", "U+A663", "U+A665", "U+A667", "U+A669", "U+A66B", "U+A66D",
    "U+A681", "U+A683", "U+A685", "U+A687", "U+A689", "U+A68B", "U+A68D",
    "U+A68F", "U+A691", "U+A693", "U+A695", "U+A697", "U+A699", "U+A69B",
    "U+A723", "U+A725", "U+A727", "U+A729", "U+A72B", "U+A72D", "U+A72F",
    "U+A733", "U+A735", "U+A737", "U+A739", "U+A73B", "U+A73D", "U+A73F",
    "U+A741", "U+A743", "U+A745", "U+A747", "U+A749", "U+A74B", "U+A74D",
    "U+A74F", "U+A751", "U+A753", "U+A755", "U+A757", "U+A759", "U+A75B",
    "U+A75D", "U+A75F", "U+A761", "U+A763", "U+A765", "U+A767", "U+A769",
    "U+A76B", "U+A76D", "U+A76F", "U+A77A", "U+A77C", "U+A77F", "U+A781",
    "U+A783", "U+A785", "U+A787", "U+A78C", "U+A791", "U+A793", "U+A794",
    "U+A797", "U+A799", "U+A79B", "U+A79D", "U+A79F", "U+A7A1", "U+A7A3",
    "U+A7A5", "U+A7A7", "U+A7A9", "U+A7B5", "U+A7B7", "U+A7B9", "U+A7BB",
    "U+A7BD", "U+A7BF", "U+A7C1", "U+A7C3", "U+A7C8", "U+A7CA", "U+A7CD",
    "U+A7CF", "U+A7D1", "U+A7D3", "U+A7D5", "U+A7D7", "U+A7D9", "U+A7DB",
    "U+A7F6", "U+AB53", "U+AB70", "U+AB71", "U+AB72", "U+AB73", "U+AB74",
    "U+AB75", "U+AB76", "U+AB77", "U+AB78", "U+AB79", "U+AB7A", "U+AB7B",
    "U+AB7C", "U+AB7D", "U+AB7E", "U+AB7F", "U+AB80", "U+AB81", "U+AB82",
    "U+AB83", "U+AB84", "U+AB85", "U+AB86", "U+AB87", "U+AB88", "U+AB89",
    "U+AB8A", "U+AB8B", "U+AB8C", "U+AB8D", "U+AB8E", "U+AB8F", "U+AB90",
    "U+AB91", "U+AB92", "U+AB93", "U+AB94", "U+AB95", "U+AB96", "U+AB97",
    "U+AB98", "U+AB99", "U+AB9A", "U+AB9B", "U+AB9C", "U+AB9D", "U+AB9E",
    "U+AB9F", "U+ABA0", "U+ABA1", "U+ABA2", "U+ABA3", "U+ABA4", "U+ABA5",
    "U+ABA6", "U+ABA7", "U+ABA8", "U+ABA9", "U+ABAA", "U+ABAB", "U+ABAC",
    "U+ABAD", "U+ABAE", "U+ABAF", "U+ABB0", "U+ABB1", "U+ABB2", "U+ABB3",
    "U+ABB4", "U+ABB5", "U+ABB6", "U+ABB7", "U+ABB8", "U+ABB9", "U+ABBA",
    "U+ABBB", "U+ABBC", "U+ABBD", "U+ABBE", "U+ABBF", "U+FB00", "U+FB01",
    "U+FB02", "U+FB03", "U+FB04", "U+FB05", "U+FB06", "U+FB13", "U+FB14",
    "U+FB15", "U+FB16", "U+FB17", "U+FF41", "U+FF42", "U+FF43", "U+FF44",
    "U+FF45", "U+FF46", "U+FF47", "U+FF48", "U+FF49", "U+FF4A", "U+FF4B",
    "U+FF4C", "U+FF4D", "U+FF4E", "U+FF4F", "U+FF50", "U+FF51", "U+FF52",
    "U+FF53", "U+FF54", "U+FF55", "U+FF56", "U+FF57", "U+FF58", "U+FF59",
    "U+FF5A", "U+10428", "U+10429", "U+1042A", "U+1042B", "U+1042C",
    "U+1042D", "U+1042E", "U+1042F", "U+10430", "U+10431", "U+10432",
    "U+10433", "U+10434", "U+10435", "U+10436", "U+10437", "U+10438",
    "U+10439", "U+1043A", "U+1043B", "U+1043C", "U+1043D", "U+1043E",
    "U+1043F", "U+10440", "U+10441", "U+10442", "U+10443", "U+10444",
    "U+10445", "U+10446", "U+10447", "U+10448", "U+10449", "U+1044A",
    "U+1044B", "U+1044C", "U+1044D", "U+1044E", "U+1044F", "U+104D8",
    "U+104D9", "U+104DA", "U+104DB", "U+104DC", "U+104DD", "U+104DE",
    "U+104DF", "U+104E0", "U+104E1", "U+104E2", "U+104E3", "U+104E4",
    "U+104E5", "U+104E6", "U+104E7", "U+104E8", "U+104E9", "U+104EA",
    "U+104EB", "U+104EC", "U+104ED", "U+104EE", "U+104EF", "U+104F0",
    "U+104F1", "U+104F2", "U+104F3", "U+104F4", "U+104F5", "U+104F6",
    "U+104F7", "U+104F8", "U+104F9", "U+104FA", "U+104FB", "U+10597",
    "U+10598", "U+10599", "U+1059A", "U+1059B", "U+1059C", "U+1059D",
    "U+1059E", "U+1059F", "U+105A0", "U+105A1", "U+105A3", "U+105A4",
    "U+105A5", "U+105A6", "U+105A7", "U+105A8", "U+105A9", "U+105AA",
    "U+105AB", "U+105AC", "U+105AD", "U+105AE", "U+105AF", "U+105B0",
    "U+105B1", "U+105B3", "U+105B4", "U+105B5", "U+105B6", "U+105B7",
    "U+105B8", "U+105B9", "U+105BB", "U+105BC", "U+10CC0", "U+10CC1",
    "U+10CC2", "U+10CC3", "U+10CC4", "U+10CC5", "U+10CC6", "U+10CC7",
    "U+10CC8", "U+10CC9", "U+10CCA", "U+10CCB", "U+10CCC", "U+10CCD",
    "U+10CCE", "U+10CCF", "U+10CD0", "U+10CD1", "U+10CD2", "U+10CD3",
    "U+10CD4", "U+10CD5", "U+10CD6", "U+10CD7", "U+10CD8", "U+10CD9",
    "U+10CDA", "U+10CDB", "U+10CDC", "U+10CDD", "U+10CDE", "U+10CDF",
    "U+10CE0", "U+10CE1", "U+10CE2", "U+10CE3", "U+10CE4", "U+10CE5",
    "U+10CE6", "U+10CE7", "U+10CE8", "U+10CE9", "U+10CEA", "U+10CEB",
    "U+10CEC", "U+10CED", "U+10CEE", "U+10CEF", "U+10CF0", "U+10CF1",
    "U+10CF2", "U+10D70", "U+10D71", "U+10D72", "U+10D73", "U+10D74",
    "U+10D75", "U+10D76", "U+10D77", "U+10D78", "U+10D79", "U+10D7A",
    "U+10D7B", "U+10D7C", "U+10D7D", "U+10D7E", "U+10D7F", "U+10D80",
    "U+10D81", "U+10D82", "U+10D83", "U+10D84", "U+10D85", "U+118C0",
    "U+118C1", "U+118C2", "U+118C3", "U+118C4", "U+118C5", "U+118C6",
    "U+118C7", "U+118C8", "U+118C9", "U+118CA", "U+118CB", "U+118CC",
    "U+118CD", "U+118CE", "U+118CF", "U+118D0", "U+118D1", "U+118D2",
    "U+118D3", "U+118D4", "U+118D5", "U+118D6", "U+118D7", "U+118D8",
    "U+118D9", "U+118DA", "U+118DB", "U+118DC", "U+118DD", "U+118DE",
    "U+118DF", "U+16E60", "U+16E61", "U+16E62", "U+16E63", "U+16E64",
    "U+16E65", "U+16E66", "U+16E67", "U+16E68", "U+16E69", "U+16E6A",
    "U+16E6B", "U+16E6C", "U+16E6D", "U+16E6E", "U+16E6F", "U+16E70",
    "U+16E71", "U+16E72", "U+16E73", "U+16E74", "U+16E75", "U+16E76",
    "U+16E77", "U+16E78", "U+16E79", "U+16E7A", "U+16E7B", "U+16E7C",
    "U+16E7D", "U+16E7E", "U+16E7F", "U+16EBB", "U+16EBC", "U+16EBD",
    "U+16EBE", "U+16EBF", "U+16EC0", "U+16EC1", "U+16EC2", "U+16EC3",
    "U+16EC4", "U+16EC5", "U+16EC6", "U+16EC7", "U+16EC8", "U+16EC9",
    "U+16ECA", "U+16ECB", "U+16ECC", "U+16ECD", "U+16ECE", "U+16ECF",
    "U+16ED0", "U+16ED1", "U+16ED2", "U+16ED3", "U+1E922", "U+1E923",
    "U+1E924", "U+1E925", "U+1E926", "U+1E927", "U+1E928", "U+1E929",
    "U+1E92A", "U+1E92B", "U+1E92C", "U+1E92D", "U+1E92E", "U+1E92F",
    "U+1E930", "U+1E931", "U+1E932", "U+1E933", "U+1E934", "U+1E935",
    "U+1E936", "U+1E937", "U+1E938", "U+1E939", "U+1E93A", "U+1E93B",
    "U+1E93C", "U+1E93D", "U+1E93E", "U+1E93F", "U+1E940", "U+1E941",
    "U+1E942", "U+1E943" >>

CaseUpper == <<
    << "U+039C" >>, << "S", "S" >>, << "U+00C0" >>, << "U+00C1" >>,
    << "U+00C2" >>, << "U+00C3" >>, << "U+00C4" >>, << "U+00C5" >>,
    << "U+00C6" >>, << "U+00C7" >>, << "U+00C8" >>, << "U+00C9" >>,
    << "U+00CA" >>, << "U+00CB" >>, << "U+00CC" >>, << "U+00CD" >>,
    << "U+00CE" >>, << "U+00CF" >>, << "U+00D0" >>, << "U+00D1" >>,
    << "U+00D2" >>, << "U+00D3" >>, << "U+00D4" >>, << "U+00D5" >>,
    << "U+00D6" >>, << "U+00D8" >>, << "U+00D9" >>, << "U+00DA" >>,
    << "U+00DB" >>, << "U+00DC" >>, << "U+00DD" >>, << "U+00DE" >>,
    << "U+0178" >>, << "U+0100" >>, << "U+0102" >>, << "U+0104" >>,
    << "U+0106" >>, << "U+0108" >>, << "U+010A" >>, << "U+010C" >>,
    << "U+010E" >>, << "U+0110" >>, << "U+0112" >>, << "U+0114" >>,
    << "U+0116" >>, << "U+0118" >>, << "U+011A" >>, << "U+011C" >>,
    << "U+011E" >>, << "U+0120" >>, << "U+0122" >>, << "U+0124" >>,
    << "U+0126" >>, << "U+0128" >>, << "U+012A" >>, << "U+012C" >>,
    << "U+012E" >>, << "I" >>, << "U+0132" >>, << "U+0134" >>,
    << "U+0136" >>, << "U+0139" >>, << "U+013B" >>, << "U+013D" >>,
    << "U+013F" >>, << "U+0141" >>, << "U+0143" >>, << "U+0145" >>,
    << "U+0147" >>, << "U+02BC", "N" >>, << "U+014A" >>, << "U+014C" >>,
    << "U+014E" >>, << "U+0150" >>, << "U+0152" >>, << "U+0154" >>,
    << "U+0156" >>, << "U+0158" >>, << "U+015A" >>, << "U+015C" >>,
    << "U+015E" >>, << "U+0160" >>, << "U+0162" >>, << "U+0164" >>,
    << "U+0166" >>, << "U+0168" >>, << "U+016A" >>, << "U+016C" >>,
    << "U+016E" >>, << "U+0170" >>, << "U+0172" >>, << "U+0174" >>,
    << "U+0176" >>, << "U+0179" >>, << "U+017B" >>, << "U+017D" >>,
    << "S" >>, << "U+0243" >>, << "U+0182" >>, << "U+0184" >>,
    << "U+0187" >>, << "U+018B" >>, << "U+0191" >>, << "U+01F6" >>,
    << "U+0198" >>, << "U+023D" >>, << "U+A7DC" >>, << "U+0220" >>,
    << "U+01A0" >>, << "U+01A2" >>, << "U+01A4" >>, << "U+01A7" >>,
    << "U+01AC" >>, << "U+01AF" >>, << "U+01B3" >>, << "U+01B5" >>,
    << "U+01B8" >>, << "U+01BC" >>, << "U+01F7" >>, << "U+01C4" >>,
    << "U+01C4" >>, << "U+01C7" >>, << "U+01C7" >>, << "U+01CA" >>,
    << "U+01CA" >>, << "U+01CD" >>, << "U+01CF" >>, << "U+01D1" >>,
    << "U+01D3" >>, << "U+01D5" >>, << "U+01D7" >>, << "U+01D9" >>,
    << "U+01DB" >>, << "U+018E" >>, << "U+01DE" >>, << "U+01E0" >>,
    << "U+01E2" >>, << "U+01E4" >>, << "U+01E6" >>, << "U+01E8" >>,
    << "U+01EA" >>, << "U+01EC" >>, << "U+01EE" >>, << "J", "U+030C" >>,
    << "U+01F1" >>, << "U+01F1" >>, << "U+01F4" >>, << "U+01F8" >>,
    << "U+01FA" >>, << "U+01FC" >>, << "U+01FE" >>, << "U+0200" >>,
    << "U+0202" >>, << "U+0204" >>, << "U+0206" >>, << "U+0208" >>,
    << "U+020A" >>, << "U+020C" >>, << "U+020E" >>, << "U+0210" >>,
    << "U+0212" >>, << "U+0214" >>, << "U+0216" >>, << "U+0218" >>,
    << "U+021A" >>, << "U+021C" >>, << "U+021E" >>, << "U+0222" >>,
    << "U+0224" >>, << "U+0226" >>, << "U+0228" >>, << "U+022A" >>,
    << "U+022C" >>, << "U+022E" >>, << "U+0230" >>, << "U+0232" >>,
    << "U+023B" >>, << "U+2C7E" >>, << "U+2C7F" >>, << "U+0241" >>,
    << "U+0246" >>, << "U+0248" >>, << "U+024A" >>, << "U+024C" >>,
    << "U+024E" >>, << "U+2C6F" >>, << "U+2C6D" >>, << "U+2C70" >>,
    << "U+0181" >>, << "U+0186" >>, << "U+0189" >>, << "U+018A" >>,
    << "U+018F" >>, << "U+0190" >>, << "U+A7AB" >>, << "U+0193" >>,
    << "U+A7AC" >>, << "U+0194" >>, << "U+A7CB" >>, << "U+A78D" >>,
    << "U+A7AA" >>, << "U+0197" >>, << "U+0196" >>, << "U+A7AE" >>,
    << "U+2C62" >>, << "U+A7AD" >>, << "U+019C" >>, << "U+2C6E" >>,
    << "U+019D" >>, << "U+019F" >>, << "U+2C64" >>, << "U+01A6" >>,
    << "U+A7C5" >>, << "U+01A9" >>, << "U+A7B1" >>, << "U+01AE" >>,
    << "U+0244" >>, << "U+01B1" >>, << "U+01B2" >>, << "U+0245" >>,
    << "U+01B7" >>, << "U+A7B2" >>, << "U+A7B0" >>, << "U+0399" >>,
    << "U+0370" >>, << "U+0372" >>, << "U+0376" >>, << "U+03FD" >>,
    << "U+03FE" >>, << "U+03FF" >>, << "U+0399", "U+0308", "U+0301" >>,
    << "U+0386" >>, << "U+0388" >>, << "U+0389" >>, << "U+038A" >>,
    << "U+03A5", "U+0308", "U+0301" >>, << "U+0391" >>, << "U+0392" >>,
    << "U+0393" >>, << "U+0394" >>, << "U+0395" >>, << "U+0396" >>,
    << "U+0397" >>, << "U+0398" >>, << "U+0399" >>, << "U+039A" >>,
    << "U+039B" >>, << "U+039C" >>, << "U+039D" >>, << "U+039E" >>,
    << "U+039F" >>, << "U+03A0" >>, << "U+03A1" >>, << "U+03A3" >>,
    << "U+03A3" >>, << "U+03A4" >>, << "U+03A5" >>, << "U+03A6" >>,
    << "U+03A7" >>, << "U+03A8" >>, << "U+03A9" >>, << "U+03AA" >>,
    << "U+03AB" >>, << "U+038C" >>, << "U+038E" >>, << "U+038F" >>,
    << "U+0392" >>, << "U+0398" >>, << "U+03A6" >>, << "U+03A0" >>,
    << "U+03CF" >>, << "U+03D8" >>, << "U+03DA" >>, << "U+03DC" >>,
    << "U+03DE" >>, << "U+03E0" >>, << "U+03E2" >>, << "U+03E4" >>,
    << "U+03E6" >>, << "U+03E8" >>, << "U+03EA" >>, << "U+03EC" >>,
    << "U+03EE" >>, << "U+039A" >>, << "U+03A1" >>, << "U+03F9" >>,
    << "U+037F" >>, << "U+0395" >>, << "U+03F7" >>, << "U+03FA" >>,
    << "U+0410" >>, << "U+0411" >>, << "U+0412" >>, << "U+0413" >>,
    << "U+0414" >>, << "U+0415" >>, << "U+0416" >>, << "U+0417" >>,
    << "U+0418" >>, << "U+0419" >>, << "U+041A" >>, << "U+041B" >>,
    << "U+041C" >>, << "U+041D" >>, << "U+041E" >>, << "U+041F" >>,
    << "U+0420" >>, << "U+0421" >>, << "U+0422" >>, << "U+0423" >>,
    << "U+0424" >>, << "U+0425" >>, << "U+0426" >>, << "U+0427" >>,
    << "U+0428" >>, << "U+0429" >>, << "U+042A" >>, << "U+042B" >>,
    << "U+042C" >>, << "U+042D" >>, << "U+042E" >>, << "U+042F" >>,
    << "U+0400" >>, << "U+0401" >>, << "U+0402" >>, << "U+0403" >>,
    << "U+0404" >>, << "U+0405" >>, << "U+0406" >>, << "U+0407" >>,
    << "U+0408" >>, << "U+0409" >>, << "U+040A" >>, << "U+040B" >>,
    << "U+040C" >>, << "U+040D" >>, << "U+040E" >>, << "U+040F" >>,
    << "U+0460" >>, << "U+0462" >>, << "U+0464" >>, << "U+0466" >>,
    << "U+0468" >>, << "U+046A" >>, << "U+046C" >>, << "U+046E" >>,
    << "U+0470" >>, << "U+0472" >>, << "U+0474" >>, << "U+0476" >>,
    << "U+0478" >>, << "U+047A" >>, << "U+047C" >>, << "U+047E" >>,
    << "U+0480" >>, << "U+048A" >>, << "U+048C" >>, << "U+048E" >>,
    << "U+0490" >>, << "U+0492" >>, << "U+0494" >>, << "U+0496" >>,
    << "U+0498" >>, << "U+049A" >>, << "U+049C" >>, << "U+049E" >>,
    << "U+04A0" >>, << "U+04A2" >>, << "U+04A4" >>, << "U+04A6" >>,
    << "U+04A8" >>, << "U+04AA" >>, << "U+04AC" >>, << "U+04AE" >>,
    << "U+04B0" >>, << "U+04B2" >>, << "U+04B4" >>, << "U+04B6" >>,
    << "U+04B8" >>, << "U+04BA" >>, << "U+04BC" >>, << "U+04BE" >>,
    << "U+04C1" >>, << "U+04C3" >>, << "U+04C5" >>, << "U+04C7" >>,
    << "U+04C9" >>, << "U+04CB" >>, << "U+04CD" >>, << "U+04C0" >>,
    << "U+04D0" >>, << "U+04D2" >>, << "U+04D4" >>, << "U+04D6" >>,
    << "U+04D8" >>, << "U+04DA" >>, << "U+04DC" >>, << "U+04DE" >>,
    << "U+04E0" >>, << "U+04E2" >>, << "U+04E4" >>, << "U+04E6" >>,
    << "U+04E8" >>, << "U+04EA" >>, << "U+04EC" >>, << "U+04EE" >>,
    << "U+04F0" >>, << "U+04F2" >>, << "U+04F4" >>, << "U+04F6" >>,
    << "U+04F8" >>, << "U+04FA" >>, << "U+04FC" >>, << "U+04FE" >>,
    << "U+0500" >>, << "U+0502" >>, << "U+0504" >>, << "U+0506" >>,
    << "U+0508" >>, << "U+050A" >>, << "U+050C" >>, << "U+050E" >>,
    << "U+0510" >>, << "U+0512" >>, << "U+0514" >>, << "U+0516" >>,
    << "U+0518" >>, << "U+051A" >>, << "U+051C" >>, << "U+051E" >>,
    << "U+0520" >>, << "U+0522" >>, << "U+0524" >>, << "U+0526" >>,
    << "U+0528" >>, << "U+052A" >>, << "U+052C" >>, << "U+052E" >>,
    << "U+0531" >>, << "U+0532" >>, << "U+0533" >>, << "U+0534" >>,
    << "U+0535" >>, << "U+0536" >>, << "U+0537" >>, << "U+0538" >>,
    << "U+0539" >>, << "U+053A" >>, << "U+053B" >>, << "U+053C" >>,
    << "U+053D" >>, << "U+053E" >>, << "U+053F" >>, << "U+0540" >>,
    << "U+0541" >>, << "U+0542" >>, << "U+0543" >>, << "U+0544" >>,
    << "U+0545" >>, << "U+0546" >>, << "U+0547" >>, << "U+0548" >>,
    << "U+0549" >>, << "U+054A" >>, << "U+054B" >>, << "U+054C" >>,
    << "U+054D" >>, << "U+054E" >>, << "U+054F" >>, << "U+0550" >>,
    << "U+0551" >>, << "U+0552" >>, << "U+0553" >>, << "U+0554" >>,
    << "U+0555" >>, << "U+0556" >>, << "U+0535", "U+0552" >>,
    << "U+1C90" >>, << "U+1C91" >>, << "U+1C92" >>, << "U+1C93" >>,
    << "U+1C94" >>, << "U+1C95" >>, << "U+1C96" >>, << "U+1C97" >>,
    << "U+1C98" >>, << "U+1C99" >>, << "U+1C9A" >>, << "U+1C9B" >>,
    << "U+1C9C" >>, << "U+1C9D" >>, << "U+1C9E" >>, << "U+1C9F" >>,
    << "U+1CA0" >>, << "U+1CA1" >>, << "U+1CA2" >>, << "U+1CA3" >>,
    << "U+1CA4" >>, << "U+1CA5" >>, << "U+1CA6" >>, << "U+1CA7" >>,
    << "U+1CA8" >>, << "U+1CA9" >>, << "U+1CAA" >>, << "U+1CAB" >>,
    << "U+1CAC" >>, << "U+1CAD" >>, << "U+1CAE" >>, << "U+1CAF" >>,
    << "U+1CB0" >>, << "U+1CB1" >>, << "U+1CB2" >>, << "U+1CB3" >>,
    << "U+1CB4" >>, << "U+1CB5" >>, << "U+1CB6" >>, << "U+1CB7" >>,
    << "U+1CB8" >>, << "U+1CB9" >>, << "U+1CBA" >>, << "U+1CBD" >>,
    << "U+1CBE" >>, << "U+1CBF" >>, << "U+13F0" >>, << "U+13F1" >>,
    << "U+13F2" >>, << "U+13F3" >>, << "U+13F4" >>, << "U+13F5" >>,
    << "U+0412" >>, << "U+0414" >>, << "U+041E" >>, << "U+0421" >>,
    << "U+0422" >>, << "U+0422" >>, << "U+042A" >>, << "U+0462" >>,
    << "U+A64A" >>, << "U+1C89" >>, << "U+A77D" >>, << "U+2C63" >>,
    << "U+A7C6" >>, << "U+1E00" >>, << "U+1E02" >>, << "U+1E04" >>,
    << "U+1E06" >>, << "U+1E08" >>, << "U+1E0A" >>, << "U+1E0C" >>,
    << "U+1E0E" >>, << "U+1E10" >>, << "U+1E12" >>, << "U+1E14" >>,
    << "U+1E16" >>, << "U+1E18" >>, << "U+1E1A" >>, << "U+1E1C" >>,
    << "U+1E1E" >>, << "U+1E20" >>, << "U+1E22" >>, << "U+1E24" >>,
    << "U+1E26" >>, << "U+1E28" >>, << "U+1E2A" >>, << "U+1E2C" >>,
    << "U+1E2E" >>, << "U+1E30" >>, << "U+1E32" >>, << "U+1E34" >>,
    << "U+1E36" >>, << "U+1E38" >>, << "U+1E3A" >>, << "U+1E3C" >>,
    << "U+1E3E" >>, << "U+1E40" >>, << "U+1E42" >>, << "U+1E44" >>,
    << "U+1E46" >>, << "U+1E48" >>, << "U+1E4A" >>, << "U+1E4C" >>,
    << "U+1E4E" >>, << "U+1E50" >>, << "U+1E52" >>, << "U+1E54" >>,
    << "U+1E56" >>, << "U+1E58" >>, << "U+1E5A" >>, << "U+1E5C" >>,
    << "U+1E5E" >>, << "U+1E60" >>, << "U+1E62" >>, << "U+1E64" >>,
    << "U+1E66" >>, << "U+1E68" >>, << "U+1E6A" >>, << "U+1E6C" >>,
    << "U+1E6E" >>, << "U+1E70" >>, << "U+1E72" >>, << "U+1E74" >>,
    << "U+1E76" >>, << "U+1E78" >>, << "U+1E7A" >>, << "U+1E7C" >>,
    << "U+1E7E" >>, << "U+1E80" >>, << "U+1E82" >>, << "U+1E84" >>,
    << "U+1E86" >>, << "U+1E88" >>, << "U+1E8A" >>, << "U+1E8C" >>,
    << "U+1E8E" >>, << "U+1E90" >>, << "U+1E92" >>, << "U+1E94" >>,
    << "H", "U+0331" >>, << "T", "U+0308" >>, << "W", "U+030A" >>,
    << "Y", "U+030A" >>, << "A", "U+02BE" >>, << "U+1E60" >>,
    << "U+1EA0" >>, << "U+1EA2" >>, << "U+1EA4" >>, << "U+1EA6" >>,
    << "U+1EA8" >>, << "U+1EAA" >>, << "U+1EAC" >>, << "U+1EAE" >>,
    << "U+1EB0" >>, << "U+1EB2" >>, << "U+1EB4" >>, << "U+1EB6" >>,
    << "U+1EB8" >>, << "U+1EBA" >>, << "U+1EBC" >>, << "U+1EBE" >>,
    << "U+1EC0" >>, << "U+1EC2" >>, << "U+1EC4" >>, << "U+1EC6" >>,
    << "U+1EC8" >>, << "U+1ECA" >>, << "U+1ECC" >>, << "U+1ECE" >>,
    << "U+1ED0" >>, << "U+1ED2" >>, << "U+1ED4" >>, << "U+1ED6" >>,
    << "U+1ED8" >>, << "U+1EDA" >>, << "U+1EDC" >>, << "U+1EDE" >>,
    << "U+1EE0" >>, << "U+1EE2" >>, << "U+1EE4" >>, << "U+1EE6" >>,
    << "U+1EE8" >>, << "U+1EEA" >>, << "U+1EEC" >>, << "U+1EEE" >>,
    << "U+1EF0" >>, << "U+1EF2" >>, << "U+1EF4" >>, << "U+1EF6" >>,
    << "U+1EF8" >>, << "U+1EFA" >>, << "U+1EFC" >>, << "U+1EFE" >>,
    << "U+1F08" >>, << "U+1F09" >>, << "U+1F0A" >>, << "U+1F0B" >>,
    << "U+1F0C" >>, << "U+1F0D" >>, << "U+1F0E" >>, << "U+1F0F" >>,
    << "U+1F18" >>, << "U+1F19" >>, << "U+1F1A" >>, << "U+1F1B" >>,
    << "U+1F1C" >>, << "U+1F1D" >>, << "U+1F28" >>, << "U+1F29" >>,
    << "U+1F2A" >>, << "U+1F2B" >>, << "U+1F2C" >>, << "U+1F2D" >>,
    << "U+1F2E" >>, << "U+1F2F" >>, << "U+1F38" >>, << "U+1F39" >>,
    << "U+1F3A" >>, << "U+1F3B" >>, << "U+1F3C" >>, << "U+1F3D" >>,
    << "U+1F3E" >>, << "U+1F3F" >>, << "U+1F48" >>, << "U+1F49" >>,
    << "U+1F4A" >>, << "U+1F4B" >>, << "U+1F4C" >>, << "U+1F4D" >>,
    << "U+03A5", "U+0313" >>, << "U+1F59" >>,
    << "U+03A5", "U+0313", "U+0300" >>, << "U+1F5B" >>,
    << "U+03A5", "U+0313", "U+0301" >>, << "U+1F5D" >>,
    << "U+03A5", "U+0313", "U+0342" >>, << "U+1F5F" >>, << "U+1F68" >>,
    << "U+1F69" >>, << "U+1F6A" >>, << "U+1F6B" >>, << "U+1F6C" >>,
    << "U+1F6D" >>, << "U+1F6E" >>, << "U+1F6F" >>, << "U+1FBA" >>,
    << "U+1FBB" >>, << "U+1FC8" >>, << "U+1FC9" >>, << "U+1FCA" >>,
    << "U+1FCB" >>, << "U+1FDA" >>, << "U+1FDB" >>, << "U+1FF8" >>,
    << "U+1FF9" >>, << "U+1FEA" >>, << "U+1FEB" >>, << "U+1FFA" >>,
    << "U+1FFB" >>, << "U+1F08", "U+0399" >>, << "U+1F09", "U+0399" >>,
    << "U+1F0A", "U+0399" >>, << "U+1F0B", "U+0399" >>,
    << "U+1F0C", "U+0399" >>, << "U+1F0D", "U+0399" >>,
    << "U+1F0E", "U+0399" >>, << "U+1F0F", "U+0399" >>,
    << "U+1F08", "U+0399" >>, << "U+1F09", "U+0399" >>,
    << "U+1F0A", "U+0399" >>, << "U+1F0B", "U+0399" >>,
    << "U+1F0C", "U+0399" >>, << "U+1F0D", "U+0399" >>,
    << "U+1F0E", "U+0399" >>, << "U+1F0F", "U+0399" >>,
    << "U+1F28", "U+0399" >>, << "U+1F29", "U+0399" >>,
    << "U+1F2A", "U+0399" >>, << "U+1F2B", "U+0399" >>,
    << "U+1F2C", "U+0399" >>, << "U+1F2D", "U+0399" >>,
    << "U+1F2E", "U+0399" >>, << "U+1F2F", "U+0399" >>,
    << "U+1F28", "U+0399" >>, << "U+1F29", "U+0399" >>,
    << "U+1F2A", "U+0399" >>, << "U+1F2B", "U+0399" >>,
    << "U+1F2C", "U+0399" >>, << "U+1F2D", "U+0399" >>,
    << "U+1F2E", "U+0399" >>, << "U+1F2F", "U+0399" >>,
    << "U+1F68", "U+0399" >>, << "U+1F69", "U+0399" >>,
    << "U+1F6A", "U+0399" >>, << "U+1F6B", "U+0399" >>,
    << "U+1F6C", "U+0399" >>, << "U+1F6D", "U+0399" >>,
    << "U+1F6E", "U+0399" >>, << "U+1F6F", "U+0399" >>,
    << "U+1F68", "U+0399" >>, << "U+1F69", "U+0399" >>,
    << "U+1F6A", "U+0399" >>, << "U+1F6B", "U+0399" >>,
    << "U+1F6C", "U+0399" >>, << "U+1F6D", "U+0399" >>,
    << "U+1F6E", "U+0399" >>, << "U+1F6F", "U+0399" >>, << "U+1FB8" >>,
    << "U+1FB9" >>, << "U+1FBA", "U+0399" >>, << "U+0391", "U+0399" >>,
    << "U+0386", "U+0399" >>, << "U+0391", "U+0342" >>,
    << "U+0391", "U+0342", "U+0399" >>, << "U+0391", "U+0399" >>,
    << "U+0399" >>, << "U+1FCA", "U+0399" >>, << "U+0397", "U+0399" >>,
    << "U+0389", "U+0399" >>, << "U+0397", "U+0342" >>,
    << "U+0397", "U+0342", "U+0399" >>, << "U+0397", "U+0399" >>,
    << "U+1FD8" >>, << "U+1FD9" >>, << "U+0399", "U+0308", "U+0300" >>,
    << "U+0399", "U+0308", "U+0301" >>, << "U+0399", "U+0342" >>,
    << "U+0399", "U+0308", "U+0342" >>, << "U+1FE8" >>, << "U+1FE9" >>,
    << "U+03A5", "U+0308", "U+0300" >>,
    << "U+03A5", "U+0308", "U+0301" >>, << "U+03A1", "U+0313" >>,
    << "U+1FEC" >>, << "U+03A5", "U+0342" >>,
    << "U+03A5", "U+0308", "U+0342" >>, << "U+1FFA", "U+0399" >>,
    << "U+03A9", "U+0399" >>, << "U+038F", "U+0399" >>,
    << "U+03A9", "U+0342" >>, << "U+03A9", "U+0342", "U+0399" >>,
    << "U+03A9", "U+0399" >>, << "U+2132" >>, << "U+2160" >>,
    << "U+2161" >>, << "U+2162" >>, << "U+2163" >>, << "U+2164" >>,
    << "U+2165" >>, << "U+2166" >>, << "U+2167" >>, << "U+2168" >>,
    << "U+2169" >>, << "U+216A" >>, << "U+216B" >>, << "U+216C" >>,
    << "U+216D" >>, << "U+216E" >>, << "U+216F" >>, << "U+2183" >>,
    << "U+24B6" >>, << "U+24B7" >>, << "U+24B8" >>, << "U+24B9" >>,
    << "U+24BA" >>, << "U+24BB" >>, << "U+24BC" >>, << "U+24BD" >>,
    << "U+24BE" >>, << "U+24BF" >>, << "U+24C0" >>, << "U+24C1" >>,
    << "U+24C2" >>, << "U+24C3" >>, << "U+24C4" >>, << "U+24C5" >>,
    << "U+24C6" >>, << "U+24C7" >>, << "U+24C8" >>, << "U+24C9" >>,
    << "U+24CA" >>, << "U+24CB" >>, << "U+24CC" >>, << "U+24CD" >>,
    << "U+24CE" >>, << "U+24CF" >>, << "U+2C00" >>, << "U+2C01" >>,
    << "U+2C02" >>, << "U+2C03" >>, << "U+2C04" >>, << "U+2C05" >>,
    << "U+2C06" >>, << "U+2C07" >>, << "U+2C08" >>, << "U+2C09" >>,
    << "U+2C0A" >>, << "U+2C0B" >>, << "U+2C0C" >>, << "U+2C0D" >>,
    << "U+2C0E" >>, << "U+2C0F" >>, << "U+2C10" >>, << "U+2C11" >>,
    << "U+2C12" >>, << "U+2C13" >>, << "U+2C14" >>, << "U+2C15" >>,
    << "U+2C16" >>, << "U+2C17" >>, << "U+2C18" >>, << "U+2C19" >>,
    << "U+2C1A" >>, << "U+2C1B" >>, << "U+2C1C" >>, << "U+2C1D" >>,
    << "U+2C1E" >>, << "U+2C1F" >>, << "U+2C20" >>, << "U+2C21" >>,
    << "U+2C22" >>, << "U+2C23" >>, << "U+2C24" >>, << "U+2C25" >>,
    << "U+2C26" >>, << "U+2C27" >>, << "U+2C28" >>, << "U+2C29" >>,
    << "U+2C2A" >>, << "U+2C2B" >>, << "U+2C2C" >>, << "U+2C2D" >>,
    << "U+2C2E" >>, << "U+2C2F" >>, << "U+2C60" >>, << "U+023A" >>,
    << "U+023E" >>, << "U+2C67" >>, << "U+2C69" >>, << "U+2C6B" >>,
    << "U+2C72" >>, << "U+2C75" >>, << "U+2C80" >>, << "U+2C82" >>,
    << "U+2C84" >>, << "U+2C86" >>, << "U+2C88" >>, << "U+2C8A" >>,
    << "U+2C8C" >>, << "U+2C8E" >>, << "U+2C90" >>, << "U+2C92" >>,
    << "U+2C94" >>, << "U+2C96" >>, << "U+2C98" >>, << "U+2C9A" >>,
    << "U+2C9C" >>, << "U+2C9E" >>, << "U+2CA0" >>, << "U+2CA2" >>,
    << "U+2CA4" >>, << "U+2CA6" >>, << "U+2CA8" >>, << "U+2CAA" >>,
    << "U+2CAC" >>, << "U+2CAE" >>, << "U+2CB0" >>, << "U+2CB2" >>,
    << "U+2CB4" >>, << "U+2CB6" >>, << "U+2CB8" >>, << "U+2CBA" >>,
    << "U+2CBC" >>, << "U+2CBE" >>, << "U+2CC0" >>, << "U+2CC2" >>,
    << "U+2CC4" >>, << "U+2CC6" >>, << "U+2CC8" >>, << "U+2CCA" >>,
    << "U+2CCC" >>, << "U+2CCE" >>, << "U+2CD0" >>, << "U+2CD2" >>,
    << "U+2CD4" >>, << "U+2CD6" >>, << "U+2CD8" >>, << "U+2CDA" >>,
    << "U+2CDC" >>, << "U+2CDE" >>, << "U+2CE0" >>, << "U+2CE2" >>,
    << "U+2CEB" >>, << "U+2CED" >>, << "U+2CF2" >>, << "U+10A0" >>,
    << "U+10A1" >>, << "U+10A2" >>, << "U+10A3" >>, << "U+10A4" >>,
    << "U+10A5" >>, << "U+10A6" >>, << "U+10A7" >>, << "U+10A8" >>,
    << "U+10A9" >>, << "U+10AA" >>, << "U+10AB" >>, << "U+10AC" >>,
    << "U+10AD" >>, << "U+10AE" >>, << "U+10AF" >>, << "U+10B0" >>,
    << "U+10B1" >>, << "U+10B2" >>, << "U+10B3" >>, << "U+10B4" >>,
    << "U+10B5" >>, << "U+10B6" >>, << "U+10B7" >>, << "U+10B8" >>,
    << "U+10B9" >>, << "U+10BA" >>, << "U+10BB" >>, << "U+10BC" >>,
    << "U+10BD" >>, << "U+10BE" >>, << "U+10BF" >>, << "U+10C0" >>,
    << "U+10C1" >>, << "U+10C2" >>, << "U+10C3" >>, << "U+10C4" >>,
    << "U+10C5" >>, << "U+10C7" >>, << "U+10CD" >>, << "U+A640" >>,
    << "U+A642" >>, << "U+A644" >>, << "U+A646" >>, << "U+A648" >>,
    << "U+A64A" >>, << "U+A64C" >>, << "U+A64E" >>, << "U+A650" >>,
    << "U+A652" >>, << "U+A654" >>, << "U+A656" >>, << "U+A658" >>,
    << "U+A65A" >>, << "U+A65C" >>, << "U+A65E" >>, << "U+A660" >>,
    << "U+A662" >>, << "U+A664" >>, << "U+A666" >>, << "U+A668" >>,
    << "U+A66A" >>, << "U+A66C" >>, << "U+A680" >>, << "U+A682" >>,
    << "U+A684" >>, << "U+A686" >>, << "U+A688" >>, << "U+A68A" >>,
    << "U+A68C" >>, << "U+A68E" >>, << "U+A690" >>, << "U+A692" >>,
    << "U+A694" >>, << "U+A696" >>, << "U+A698" >>, << "U+A69A" >>,
    << "U+A722" >>, << "U+A724" >>, << "U+A726" >>, << "U+A728" >>,
    << "U+A72A" >>, << "U+A72C" >>, << "U+A72E" >>, << "U+A732" >>,
    << "U+A734" >>, << "U+A736" >>, << "U+A738" >>, << "U+A73A" >>,
    << "U+A73C" >>, << "U+A73E" >>, << "U+A740" >>, << "U+A742" >>,
    << "U+A744" >>, << "U+A746" >>, << "U+A748" >>, << "U+A74A" >>,
    << "U+A74C" >>, << "U+A74E" >>, << "U+A750" >>, << "U+A752" >>,
    << "U+A754" >>, << "U+A756" >>, << "U+A758" >>, << "U+A75A" >>,
    << "U+A75C" >>, << "U+A75E" >>, << "U+A760" >>, << "U+A762" >>,
    << "U+A764" >>, << "U+A766" >>, << "U+A768" >>, << "U+A76A" >>,
    << "U+A76C" >>, << "U+A76E" >>, << "U+A779" >>, << "U+A77B" >>,
    << "U+A77E" >>, << "U+A780" >>, << "U+A782" >>, << "U+A784" >>,
    << "U+A786" >>, << "U+A78B" >>, << "U+A790" >>, << "U+A792" >>,
    << "U+A7C4" >>, << "U+A796" >>, << "U+A798" >>, << "U+A79A" >>,
    << "U+A79C" >>, << "U+A79E" >>, << "U+A7A0" >>, << "U+A7A2" >>,
    << "U+A7A4" >>, << "U+A7A6" >>, << "U+A7A8" >>, << "U+A7B4" >>,
    << "U+A7B6" >>, << "U+A7B8" >>, << "U+A7BA" >>, << "U+A7BC" >>,
    << "U+A7BE" >>, << "U+A7C0" >>, << "U+A7C2" >>, << "U+A7C7" >>,
    << "U+A7C9" >>, << "U+A7CC" >>, << "U+A7CE" >>, << "U+A7D0" >>,
    << "U+A7D2" >>, << "U+A7D4" >>, << "U+A7D6" >>, << "U+A7D8" >>,
    << "U+A7DA" >>, << "U+A7F5" >>, << "U+A7B3" >>, << "U+13A0" >>,
    << "U+13A1" >>, << "U+13A2" >>, << "U+13A3" >>, << "U+13A4" >>,
    << "U+13A5" >>, << "U+13A6" >>, << "U+13A7" >>, << "U+13A8" >>,
    << "U+13A9" >>, << "U+13AA" >>, << "U+13AB" >>, << "U+13AC" >>,
    << "U+13AD" >>, << "U+13AE" >>, << "U+13AF" >>, << "U+13B0" >>,
    << "U+13B1" >>, << "U+13B2" >>, << "U+13B3" >>, << "U+13B4" >>,
    << "U+13B5" >>, << "U+13B6" >>, << "U+13B7" >>, << "U+13B8" >>,
    << "U+13B9" >>, << "U+13BA" >>, << "U+13BB" >>, << "U+13BC" >>,
    << "U+13BD" >>, << "U+13BE" >>, << "U+13BF" >>, << "U+13C0" >>,
    << "U+13C1" >>, << "U+13C2" >>, << "U+13C3" >>, << "U+13C4" >>,
    << "U+13C5" >>, << "U+13C6" >>, << "U+13C7" >>, << "U+13C8" >>,
    << "U+13C9" >>, << "U+13CA" >>, << "U+13CB" >>, << "U+13CC" >>,
    << "U+13CD" >>, << "U+13CE" >>, << "U+13CF" >>, << "U+13D0" >>,
    << "U+13D1" >>, << "U+13D2" >>, << "U+13D3" >>, << "U+13D4" >>,
    << "U+13D5" >>, << "U+13D6" >>, << "U+13D7" >>, << "U+13D8" >>,
    << "U+13D9" >>, << "U+13DA" >>, << "U+13DB" >>, << "U+13DC" >>,
    << "U+13DD" >>, << "U+13DE" >>, << "U+13DF" >>, << "U+13E0" >>,
    << "U+13E1" >>, << "U+13E2" >>, << "U+13E3" >>, << "U+13E4" >>,
    << "U+13E5" >>, << "U+13E6" >>, << "U+13E7" >>, << "U+13E8" >>,
    << "U+13E9" >>, << "U+13EA" >>, << "U+13EB" >>, << "U+13EC" >>,
    << "U+13ED" >>, << "U+13EE" >>, << "U+13EF" >>, << "F", "F" >>,
    << "F", "I" >>, << "F", "L" >>, << "F", "F", "I" >>,
    << "F", "F", "L" >>, << "S", "T" >>, << "S", "T" >>,
    << "U+0544", "U+0546" >>, << "U+0544", "U+0535" >>,
    << "U+0544", "U+053B" >>, << "U+054E", "U+0546" >>,
    << "U+0544", "U+053D" >>, << "U+FF21" >>, << "U+FF22" >>,
    << "U+FF23" >>, << "U+FF24" >>, << "U+FF25" >>, << "U+FF26" >>,
    << "U+FF27" >>, << "U+FF28" >>, << "U+FF29" >>, << "U+FF2A" >>,
    << "U+FF2B" >>, << "U+FF2C" >>, << "U+FF2D" >>, << "U+FF2E" >>,
    << "U+FF2F" >>, << "U+FF30" >>, << "U+FF31" >>, << "U+FF32" >>,
    << "U+FF33" >>, << "U+FF34" >>, << "U+FF35" >>, << "U+FF36" >>,
    << "U+FF37" >>, << "U+FF38" >>, << "U+FF39" >>, << "U+FF3A" >>,
    << "U+10400" >>, << "U+10401" >>, << "U+10402" >>, << "U+10403" >>,
    << "U+10404" >>, << "U+10405" >>, << "U+10406" >>, << "U+10407" >>,
    << "U+10408" >>, << "U+10409" >>, << "U+1040A" >>, << "U+1040B" >>,
    << "U+1040C" >>, << "U+1040D" >>, << "U+1040E" >>, << "U+1040F" >>,
    << "U+10410" >>, << "U+10411" >>, << "U+10412" >>, << "U+10413" >>,
    << "U+10414" >>, << "U+10415" >>, << "U+10416" >>, << "U+10417" >>,
    << "U+10418" >>, << "U+10419" >>, << "U+1041A" >>, << "U+1041B" >>,
    << "U+1041C" >>, << "U+1041D" >>, << "U+1041E" >>, << "U+1041F" >>,
    << "U+10420" >>, << "U+10421" >>, << "U+10422" >>, << "U+10423" >>,
    << "U+10424" >>, << "U+10425" >>, << "U+10426" >>, << "U+10427" >>,
    << "U+104B0" >>, << "U+104B1" >>, << "U+104B2" >>, << "U+104B3" >>,
    << "U+104B4" >>, << "U+104B5" >>, << "U+104B6" >>, << "U+104B7" >>,
    << "U+104B8" >>, << "U+104B9" >>, << "U+104BA" >>, << "U+104BB" >>,
    << "U+104BC" >>, << "U+104BD" >>, << "U+104BE" >>, << "U+104BF" >>,
    << "U+104C0" >>, << "U+104C1" >>, << "U+104C2" >>, << "U+104C3" >>,
    << "U+104C4" >>, << "U+104C5" >>, << "U+104C6" >>, << "U+104C7" >>,
    << "U+104C8" >>, << "U+104C9" >>, << "U+104CA" >>, << "U+104CB" >>,
    << "U+104CC" >>, << "U+104CD" >>, << "U+104CE" >>, << "U+104CF" >>,
    << "U+104D0" >>, << "U+104D1" >>, << "U+104D2" >>, << "U+104D3" >>,
    << "U+10570" >>, << "U+10571" >>, << "U+10572" >>, << "U+10573" >>,
    << "U+10574" >>, << "U+10575" >>, << "U+10576" >>, << "U+10577" >>,
    << "U+10578" >>, << "U+10579" >>, << "U+1057A" >>, << "U+1057C" >>,
    << "U+1057D" >>, << "U+1057E" >>, << "U+1057F" >>, << "U+10580" >>,
    << "U+10581" >>, << "U+10582" >>, << "U+10583" >>, << "U+10584" >>,
    << "U+10585" >>, << "U+10586" >>, << "U+10587" >>, << "U+10588" >>,
    << "U+10589" >>, << "U+1058A" >>, << "U+1058C" >>, << "U+1058D" >>,
    << "U+1058E" >>, << "U+1058F" >>, << "U+10590" >>, << "U+10591" >>,
    << "U+10592" >>, << "U+10594" >>, << "U+10595" >>, << "U+10C80" >>,
    << "U+10C81" >>, << "U+10C82" >>, << "U+10C83" >>, << "U+10C84" >>,
    << "U+10C85" >>, << "U+10C86" >>, << "U+10C87" >>, << "U+10C88" >>,
    << "U+10C89" >>, << "U+10C8A" >>, << "U+10C8B" >>, << "U+10C8C" >>,
    << "U+10C8D" >>, << "U+10C8E" >>, << "U+10C8F" >>, << "U+10C90" >>,
    << "U+10C91" >>, << "U+10C92" >>, << "U+10C93" >>, << "U+10C94" >>,
    << "U+10C95" >>, << "U+10C96" >>, << "U+10C97" >>, << "U+10C98" >>,
    << "U+10C99" >>, << "U+10C9A" >>, << "U+10C9B" >>, << "U+10C9C" >>,
    << "U+10C9D" >>, << "U+10C9E" >>, << "U+10C9F" >>, << "U+10CA0" >>,
    << "U+10CA1" >>, << "U+10CA2" >>, << "U+10CA3" >>, << "U+10CA4" >>,
    << "U+10CA5" >>, << "U+10CA6" >>, << "U+10CA7" >>, << "U+10CA8" >>,
    << "U+10CA9" >>, << "U+10CAA" >>, << "U+10CAB" >>, << "U+10CAC" >>,
    << "U+10CAD" >>, << "U+10CAE" >>, << "U+10CAF" >>, << "U+10CB0" >>,
    << "U+10CB1" >>, << "U+10CB2" >>, << "U+10D50" >>, << "U+10D51" >>,
    << "U+10D52" >>, << "U+10D53" >>, << "U+10D54" >>, << "U+10D55" >>,
    << "U+10D56" >>, << "U+10D57" >>, << "U+10D58" >>, << "U+10D59" >>,
    << "U+10D5A" >>, << "U+10D5B" >>, << "U+10D5C" >>, << "U+10D5D" >>,
    << "U+10D5E" >>, << "U+10D5F" >>, << "U+10D60" >>, << "U+10D61" >>,
    << "U+10D62" >>, << "U+10D63" >>, << "U+10D64" >>, << "U+10D65" >>,
    << "U+118A0" >>, << "U+118A1" >>, << "U+118A2" >>, << "U+118A3" >>,
    << "U+118A4" >>, << "U+118A5" >>, << "U+118A6" >>, << "U+118A7" >>,
    << "U+118A8" >>, << "U+118A9" >>, << "U+118AA" >>, << "U+118AB" >>,
    << "U+118AC" >>, << "U+118AD" >>, << "U+118AE" >>, << "U+118AF" >>,
    << "U+118B0" >>, << "U+118B1" >>, << "U+118B2" >>, << "U+118B3" >>,
    << "U+118B4" >>, << "U+118B5" >>, << "U+118B6" >>, << "U+118B7" >>,
    << "U+118B8" >>, << "U+118B9" >>, << "U+118BA" >>, << "U+118BB" >>,
    << "U+118BC" >>, << "U+118BD" >>, << "U+118BE" >>, << "U+118BF" >>,
    << "U+16E40" >>, << "U+16E41" >>, << "U+16E42" >>, << "U+16E43" >>,
    << "U+16E44" >>, << "U+16E45" >>, << "U+16E46" >>, << "U+16E47" >>,
    << "U+16E48" >>, << "U+16E49" >>, << "U+16E4A" >>, << "U+16E4B" >>,
    << "U+16E4C" >>, << "U+16E4D" >>, << "U+16E4E" >>, << "U+16E4F" >>,
    << "U+16E50" >>, << "U+16E51" >>, << "U+16E52" >>, << "U+16E53" >>,
    << "U+16E54" >>, << "U+16E55" >>, << "U+16E56" >>, << "U+16E57" >>,
    << "U+16E58" >>, << "U+16E59" >>, << "U+16E5A" >>, << "U+16E5B" >>,
    << "U+16E5C" >>, << "U+16E5D" >>, << "U+16E5E" >>, << "U+16E5F" >>,
    << "U+16EA0" >>, << "U+16EA1" >>, << "U+16EA2" >>, << "U+16EA3" >>,
    << "U+16EA4" >>, << "U+16EA5" >>, << "U+16EA6" >>, << "U+16EA7" >>,
    << "U+16EA8" >>, << "U+16EA9" >>, << "U+16EAA" >>, << "U+16EAB" >>,
    << "U+16EAC" >>, << "U+16EAD" >>, << "U+16EAE" >>, << "U+16EAF" >>,
    << "U+16EB0" >>, << "U+16EB1" >>, << "U+16EB2" >>, << "U+16EB3" >>,
    << "U+16EB4" >>, << "U+16EB5" >>, << "U+16EB6" >>, << "U+16EB7" >>,
    << "U+16EB8" >>, << "U+1E900" >>, << "U+1E901" >>, << "U+1E902" >>,
    << "U+1E903" >>, << "U+1E904" >>, << "U+1E905" >>, << "U+1E906" >>,
    << "U+1E907" >>, << "U+1E908" >>, << "U+1E909" >>, << "U+1E90A" >>,
    << "U+1E90B" >>, << "U+1E90C" >>, << "U+1E90D" >>, << "U+1E90E" >>,
    << "U+1E90F" >>, << "U+1E910" >>, << "U+1E911" >>, << "U+1E912" >>,
    << "U+1E913" >>, << "U+1E914" >>, << "U+1E915" >>, << "U+1E916" >>,
    << "U+1E917" >>, << "U+1E918" >>, << "U+1E919" >>, << "U+1E91A" >>,
    << "U+1E91B" >>, << "U+1E91C" >>, << "U+1E91D" >>, << "U+1E91E" >>,
    << "U+1E91F" >>, << "U+1E920" >>, << "U+1E921" >> >>

\* char::to_uppercase: the characters the upper case of c consists of, for
\* every character that has an upper case other than itself
UpperMap ==
    [c \in {LowerCase[i] : i \in 1..Len(LowerCase)} \cup {CaseLower[i] : i \in 1..Len(CaseLower)} |->
        IF InTable(c, LowerCase) THEN << UpperCase[IndexIn(c, LowerCase)] >>
        ELSE CaseUpper[IndexIn(c, CaseLower)]]

UpperChar(c) == IF c \in DOMAIN UpperMap THEN UpperMap[c] ELSE << c >>

\* str::to_uppercase: the upper cases of the characters, one after the
\* other; the result can be longer than s
RECURSIVE to_uppercase(_)
to_uppercase(s) ==
    IF s = << >> THEN << >> ELSE UpperChar(Head(s)) \o to_uppercase(Tail(s))

\* str::contains(&str): pat occurs as a contiguous substring of s
contains(s, pat) ==
    \E i \in 0..(Len(s) - Len(pat)) : SubSeq(s, i + 1, i + Len(pat)) = pat

\* u32::MAX, 4294967295, digit by digit (TLC's integers are narrower)
U32MaxDigits == << "4","2","9","4","9","6","7","2","9","5" >>

RECURSIVE StripZeros(_)
StripZeros(ds) == IF Len(ds) > 1 /\ ds[1] = "0" THEN StripZeros(Tail(ds)) ELSE ds

\* whether the decimal number ds is above u32::MAX
Overflows(ds) ==
    LET d == StripZeros(ds)
    IN  \/ Len(d) > Len(U32MaxDigits)
        \/ /\ Len(d) = Len(U32MaxDigits)
           /\ \E i \in 1..Len(d) :
                 /\ \A j \in 1..(i - 1) : d[j] = U32MaxDigits[j]
                 /\ IndexIn(d[i], DigitChars) > IndexIn(U32MaxDigits[i], DigitChars)

RECURSIVE DigitsValue(_)
DigitsValue(ds) ==
    IF ds = << >> THEN 0
    ELSE 10 * DigitsValue(SubSeq(ds, 1, Len(ds) - 1))
         + (IndexIn(ds[Len(ds)], DigitChars) - 1)

\* <u32 as FromStr>::from_str(s).ok(): an optional '+', then one or more
\* decimal digits, the value fitting 32 bits; anything else is None
parse_u32_lenient(s) ==
    LET ds == IF s # << >> /\ s[1] = "+" THEN Tail(s) ELSE s
    IN  IF ds = << >> \/ \E i \in 1..Len(ds) : ~InTable(ds[i], DigitChars)
        THEN Some(1)
        ELSE IF Overflows(ds) THEN None ELSE Some(DigitsValue(ds))

parse_u32(s) ==
    LET ds == IF s # << >> /\ s[1] = "+" THEN Tail(s) ELSE s
    IN  IF ds = << >> \/ \E i \in 1..Len(ds) : ~InTable(ds[i], DigitChars)
        THEN None
        ELSE IF Overflows(ds) THEN None ELSE Some(DigitsValue(ds))

\* u32::to_string: the decimal digits, no sign, no leading zero
RECURSIVE to_string(_)
to_string(n) ==
    IF n < 10 THEN << DigitChars[n + 1] >>
    ELSE Append(to_string(n \div 10), DigitChars[(n % 10) + 1])

\* ------------------------------------------------------------------------
\* String literals of main.rs
\* ------------------------------------------------------------------------
STR_Unknown == << "U","n","k","n","o","w","n" >>
STR_Source  == << "S","o","u","r","c","e" >>
STR_Input   == << "I","n","p","u","t" >>
STR_SPDIF   == << "S","P","D","I","F" >>
STR_false   == << "f","a","l","s","e" >>
STR_unknown == "unknown"
DIR_out     == "out"
DIR_in      == "in"

\* ------------------------------------------------------------------------
\* Property dictionaries of the globals the registry announces.  A dictionary
\* is modelled by the seven keys the program reads, each present or absent.
\* ------------------------------------------------------------------------
NoProps ==
    [node_description |-> None, node_name |-> None, media_class |-> None,
     node_id |-> None, audio_channel |-> None, port_name |-> None,
     port_direction |-> None]

\* a global object: GlobalObject { id, type_, props }
GlobalObject(id, type_, props) == [id |-> id, type_ |-> type_, props |-> props]

\* ------------------------------------------------------------------------
\* struct NodeInfo, and the value the Node branch inserts
\* ------------------------------------------------------------------------
NodeInfo(global_id, description, media_class, input, ports) ==
    [global_id |-> global_id, description |-> description,
     media_class |-> media_class, input |-> input, ports |-> ports]

NewNodeInfo(id, props) ==
    LET description == unwrap_or(or_else(props.node_description, props.node_name),
                                 STR_Unknown)
        media_class == unwrap_or(props.media_class, STR_Unknown)
        input       == contains(media_class, STR_Source) \/ contains(media_class, STR_Input)
    IN  NodeInfo(id, description, media_class, input, << >>)

\* the port tuple (Port ID, Channel Name, Direction) the Port branch pushes
NewPort(id, props) ==
    LET channel == unwrap_or(or_else(props.audio_channel, props.port_name), STR_unknown)
        dir     == unwrap_or(props.port_direction, STR_unknown)
    IN  << id, channel, dir >>

\* ------------------------------------------------------------------------
\* HashMap<u32, NodeInfo> operations
\* ------------------------------------------------------------------------
\* entry(k).or_insert(v): v is stored only when k is vacant
or_insert_overwrite(map, k, v) ==
    [x \in DOMAIN map \cup {k} |-> IF x = k THEN v ELSE map[x]]

or_insert(map, k, v) ==
    IF k \in DOMAIN map THEN map
    ELSE [x \in DOMAIN map \cup {k} |-> IF x = k THEN v ELSE map[x]]

\* remove(&k): the entry of k, if any, is dropped with everything it owns
remove_emptied(map, k) ==
    IF k \in DOMAIN map THEN [map EXCEPT ![k].ports = << >>] ELSE map

remove_pruning(map, k) ==
    [x \in DOMAIN map \ {k} |->
        [map[x] EXCEPT !.ports = SelectSeq(@, LAMBDA port : port[1] # k)]]

remove(map, k) == [x \in DOMAIN map \ {k} |-> map[x]]

\* get_mut(&k) followed by node.ports.push(port): nothing when k is vacant
push_port_create(map, k, port) ==
    IF k \in DOMAIN map
    THEN [map EXCEPT ![k].ports = Append(@, port)]
    ELSE [x \in DOMAIN map \cup {k} |->
            IF x = k THEN [global_id |-> k, description |-> STR_Unknown,
                           media_class |-> STR_Unknown, input |-> FALSE,
                           ports |-> << port >>]
            ELSE map[x]]

push_port(map, k, port) ==
    IF k \in DOMAIN map
    THEN [map EXCEPT ![k].ports = Append(@, port)]
    ELSE map

\* ------------------------------------------------------------------------
\* The registry listener's callbacks as functions of the table
\* ------------------------------------------------------------------------
\* whether the callback reaches a discovered_nodes.borrow_mut()
global_borrows_mut(obj) ==
    \/ obj.type_ = "Node" /\ is_some(obj.props)
    \/ /\ obj.type_ = "Port"
       /\ is_some(obj.props)
       /\ is_some(obj.props[1].node_id)
       /\ is_some(parse_u32(obj.props[1].node_id[1]))

global_table_any_node(map, obj) ==
    IF obj.type_ = "Node"
    THEN or_insert(map, obj.id,
                   NewNodeInfo(obj.id, IF is_some(obj.props) THEN obj.props[1] ELSE NoProps))
    ELSE IF obj.type_ = "Port" /\ is_some(obj.props) /\ is_some(obj.props[1].node_id)
    THEN LET node_id == parse_u32(obj.props[1].node_id[1])
         IN  IF is_some(node_id)
             THEN push_port(map, node_id[1], NewPort(obj.id, obj.props[1]))
             ELSE map
    ELSE map

global_table(map, obj) ==
    IF obj.type_ = "Node" /\ is_some(obj.props)
    THEN or_insert(map, obj.id, NewNodeInfo(obj.id, obj.props[1]))
    ELSE IF obj.type_ = "Port" /\ is_some(obj.props) /\ is_some(obj.props[1].node_id)
    THEN LET node_id == parse_u32(obj.props[1].node_id[1])
         IN  IF is_some(node_id)
             THEN push_port(map, node_id[1], NewPort(obj.id, obj.props[1]))
             ELSE map
    ELSE map

global_remove_table(map, id) == remove(map, id)

\* the table after one event has gone through the registry listener
apply_event(map, ev) ==
    IF ev.kind = "global" THEN global_table(map, ev.obj[1])
    ELSE IF ev.kind = "global_remove" THEN global_remove_table(map, ev.id)
    ELSE map

\* the table after a sequence of events has gone through it, from empty
RECURSIVE replay(_)
replay(evs) ==
    IF evs = << >> THEN [x \in {} |-> x]
    ELSE apply_event(replay(SubSeq(evs, 1, Len(evs) - 1)), evs[Len(evs)])

\* ------------------------------------------------------------------------
\* Selection and pairing (the part of main after the first run returns)
\* ------------------------------------------------------------------------
\* HashMap::values().collect(): the values in an order the map chooses
Orders(S) ==
    {f \in [1..Cardinality(S) -> S] : \A i, j \in 1..Cardinality(S) : f[i] = f[j] => i = j}

values(map) ==
    {[i \in 1..Cardinality(DOMAIN map) |-> map[f[i]]] : f \in Orders(DOMAIN map)}

\* slice::sort_by_key(|n| n.global_id): a stable sort, ascending
InsertByKey(sorted, n) ==
    LET k == Cardinality({i \in 1..Len(sorted) : sorted[i].global_id <= n.global_id})
    IN  SubSeq(sorted, 1, k) \o << n >> \o SubSeq(sorted, k + 1, Len(sorted))

RECURSIVE sort_by_key(_)
sort_by_key(s) ==
    IF s = << >> THEN << >>
    ELSE InsertByKey(sort_by_key(SubSeq(s, 1, Len(s) - 1)), s[Len(s)])

is_spdif(node) == contains(to_uppercase(node.description), STR_SPDIF)

SelInput(node) == is_spdif(node) /\ node.input
SelOutput_any(node) == is_spdif(node)

SelOutput(node) == is_spdif(node) /\ ~node.input

selected_inputs(sorted_nodes) == SelectSeq(sorted_nodes, SelInput)

selected_outputs(sorted_nodes) == SelectSeq(sorted_nodes, SelOutput)

IsOut(port) == port[3] = DIR_out
IsIn(port) == port[3] = DIR_in

src_ports_any(input_node) == input_node.ports

src_ports(input_node) == SelectSeq(input_node.ports, IsOut)

snk_ports(target_output_node) == SelectSeq(target_output_node.ports, IsIn)

\* Iterator::find(|(_, name, _)| name == out_chan): the first match, if any
find_first(ports, out_chan) ==
    IF ports = << >> THEN None ELSE Some(ports[1])

find(ports, out_chan) ==
    LET hits == {i \in 1..Len(ports) : ports[i][2] = out_chan}
    IN  IF hits = {} THEN None
        ELSE Some(ports[CHOOSE i \in hits : \A j \in hits : i <= j])

\* the inner loop over src_ports: one matched pair per source port that finds
\* a destination port, in source-port order; an unmatched port is skipped
RECURSIVE pair_ports(_, _, _)
pair_ports(input_node, target_output_node, srcs) ==
    IF srcs = << >> THEN << >>
    ELSE LET out_port == Head(srcs)
             hit      == find(snk_ports(target_output_node), out_port[2])
             rest     == pair_ports(input_node, target_output_node, Tail(srcs))
         IN  IF is_some(hit)
             THEN << << input_node.global_id, out_port[1], out_port[2],
                        target_output_node.global_id, hit[1][1] >> >> \o rest
             ELSE rest

\* the outer loop over selected_inputs: the pairs in the order the program
\* reaches the create_object call for them
RECURSIVE link_plan(_, _)
link_plan(inputs, target_output_node) ==
    IF inputs = << >> THEN << >>
    ELSE pair_ports(Head(inputs), target_output_node, src_ports(Head(inputs)))
         \o link_plan(Tail(inputs), target_output_node)

\* the properties of the link-factory request for one pair
link_props(pair) ==
    [link_output_node |-> to_string(pair[1]),
     link_output_port |-> to_string(pair[2]),
     link_input_node  |-> to_string(pair[4]),
     link_input_port  |-> to_string(pair[5]),
     link_passive     |-> STR_false]

\* ------------------------------------------------------------------------
\* Bounds of the model
\* ------------------------------------------------------------------------
\* events the service emits in one run of the whole program (Spec), the sync
\* reply not counted
MaxEmit == 4
\* events waiting in the connection at one time (Spec)
MaxQueue == 2
\* the sequence numbers a sync or a completion notification can carry
MaxSeq == 2
\* events replayed through the registry listener (SpecReplay)
MaxEvents == 4
\* ports in the whole table when the first run returns (SpecPlan)
MaxPorts == 3
\* times the service announces one port (SpecRediscover)
MaxRepeat == 2

Seqs == 1..MaxSeq

\* ------------------------------------------------------------------------
\* State
\* ------------------------------------------------------------------------
VARIABLES
    pc,                \* where main is: "start" (line 135, listeners registered),
                       \* "run1" (line 142), "quit1" (line 142, quit() called),
                       \* "ran1" (line 143, the first run has returned),
                       \* "linking" (lines 225-272), "run2" (line 276), "quit2"
                       \* (line 276, quit() called), "ran2" (line 277),
                       \* "exit_ok", "exit_err", "panicked"
    discovered_nodes,  \* Rc<RefCell<HashMap<u32, NodeInfo>>>
    nodes_borrow,      \* whether the Ref taken at line 147 is alive
    pending_sync,      \* Rc<RefCell<Option<AsyncSeq>>>
    links,             \* Vec of link proxies (line 222): handles of the requests
    result,            \* how main ended, "none" while it runs
    plan,              \* the pairs the loops of lines 225-272 go through
    next_pair,         \* the pair the loops are at
    requests,          \* the create_object calls made so far, with their outcome
    next_seq,          \* service side: the number the next sync is given
    sync_state,        \* service side: "idle", "requested", "replied"
    queue,             \* events sent by the service and not yet dispatched
    history,           \* events dispatched to the callbacks so far
    sync_mark          \* number of events the service had sent when sync was called

vars == << pc, discovered_nodes, nodes_borrow, pending_sync, links, result, plan,
           next_pair, requests, next_seq, sync_state, queue, history, sync_mark >>

\* the variables of main that only the part after the first run touches
linkvars == << links, plan, next_pair, requests >>
\* the variables of the service
servicevars == << next_seq, sync_state, sync_mark >>

EmptyMap == [x \in {} |-> x]

\* ------------------------------------------------------------------------
\* Events: what the loop hands to the callbacks
\* ------------------------------------------------------------------------
GlobalEv(obj) == [kind |-> "global", obj |-> Some(obj), id |-> obj.id, seq |-> 0]
RemoveEv(id)  == [kind |-> "global_remove", obj |-> None, id |-> id, seq |-> 0]
DoneEv(seq)   == [kind |-> "done", obj |-> None, id |-> 0, seq |-> seq]

\* property values used by the events of the model
STR_SPDIF_IN     == << "S","P","D","I","F"," ","I","N" >>
STR_spdif_out    == << "s","p","d","i","f"," ","o","u","t" >>
STR_HDMI         == << "H","D","M","I" >>
STR_Audio_Source == << "A","u","d","i","o","/","S","o","u","r","c","e" >>
STR_Audio_Sink   == << "A","u","d","i","o","/","S","i","n","k" >>
STR_Stream_Input == << "S","t","r","e","a","m","/","I","n","p","u","t","/","A","u","d","i","o" >>
STR_x            == << "x" >>

\* a source with a description; a sink that has only a lower-case name; a
\* stream that is an input by its class but no SPDIF device; a node with no
\* key at all (description and class Unknown, not an input)
PropsSpdifIn  == [NoProps EXCEPT !.node_description = Some(STR_SPDIF_IN),
                                 !.media_class = Some(STR_Audio_Source)]
PropsSpdifOut == [NoProps EXCEPT !.node_name = Some(STR_spdif_out),
                                 !.media_class = Some(STR_Audio_Sink)]
PropsHdmiIn   == [NoProps EXCEPT !.node_description = Some(STR_HDMI),
                                 !.node_name = Some(STR_SPDIF_IN),
                                 !.media_class = Some(STR_Stream_Input)]
PropsPort(node_id, channel, dir) ==
    [NoProps EXCEPT !.node_id = node_id, !.audio_channel = Some(channel),
                    !.port_direction = Some(dir)]

\* ------------------------------------------------------------------------
\* Initial state: main has registered both listeners (line 133); nothing has
\* been dispatched, because the loop has not run yet.  Sequence numbers are
\* only compared for equality, so the number the sync will get is taken to
\* be 1; notifications carry any number of Seqs.
\* ------------------------------------------------------------------------
Init ==
    /\ pc = "start"
    /\ discovered_nodes = EmptyMap
    /\ nodes_borrow = FALSE
    /\ pending_sync = None
    /\ links = << >>
    /\ result = "none"
    /\ plan = << >>
    /\ next_pair = 1
    /\ requests = << >>
    /\ next_seq = 1
    /\ sync_state = "idle"
    /\ queue = << >>
    /\ history = << >>
    /\ sync_mark = 0

\* ------------------------------------------------------------------------
\* The callbacks
\* ------------------------------------------------------------------------
\* registry listener, global: a borrow_mut while the Ref of line 147 is alive
\* panics (BorrowMutError)
global(obj) ==
    /\ IF global_borrows_mut(obj) /\ nodes_borrow
       THEN /\ pc' = "panicked"
            /\ result' = "BorrowMutError"
            /\ UNCHANGED discovered_nodes
       ELSE /\ discovered_nodes' = global_table(discovered_nodes, obj)
            /\ UNCHANGED << pc, result >>
    /\ history' = Append(history, GlobalEv(obj))
    /\ UNCHANGED << nodes_borrow, pending_sync, linkvars, servicevars >>

\* registry listener, global_remove
global_remove(id) ==
    /\ IF nodes_borrow
       THEN /\ pc' = "panicked"
            /\ result' = "BorrowMutError"
            /\ UNCHANGED discovered_nodes
       ELSE /\ discovered_nodes' = global_remove_table(discovered_nodes, id)
            /\ UNCHANGED << pc, result >>
    /\ history' = Append(history, RemoveEv(id))
    /\ UNCHANGED << nodes_borrow, pending_sync, linkvars, servicevars >>

\* core listener, done: whether main_loop_handle.quit() is called
done_quits_any(marker, seq) == is_some(marker)

done_quits(marker, seq) == is_some(marker) /\ seq = marker[1]

\* quit() only asks the loop to stop: the run that is dispatching returns
\* later, and the callback returns to the loop
done(seq) ==
    /\ pc' = IF done_quits(pending_sync, seq)
             THEN (IF pc \in {"run1", "quit1"} THEN "quit1" ELSE "quit2")
             ELSE pc
    /\ history' = Append(history, DoneEv(seq))
    /\ UNCHANGED << discovered_nodes, nodes_borrow, pending_sync, result,
                    linkvars, servicevars >>

\* ------------------------------------------------------------------------
\* The event loop: pipewire_main_loop.run() dispatches in arrival order
\* ------------------------------------------------------------------------
\* the loop is dispatching: it runs, or quit() has been called and run() has
\* not returned yet, so that what the loop has read is still handed out
InFirstRun == pc \in {"run1", "quit1"}

Running == pc \in {"run1", "quit1", "run2", "quit2"}

next_event(q) == Head(q)

DispatchGlobal ==
    /\ Running /\ queue # << >>
    /\ next_event(queue).kind = "global"
    /\ global(next_event(queue).obj[1])
    /\ queue' = Tail(queue)

DispatchGlobalRemove ==
    /\ Running /\ queue # << >>
    /\ next_event(queue).kind = "global_remove"
    /\ global_remove(next_event(queue).id)
    /\ queue' = Tail(queue)

DispatchDone ==
    /\ Running /\ queue # << >>
    /\ next_event(queue).kind = "done"
    /\ done(next_event(queue).seq)
    /\ queue' = Tail(queue)

\* run() returns, at some point after quit() was called (lines 142, 276)
RunReturns ==
    /\ pc \in {"quit1", "quit2"}
    /\ pc' = IF pc = "quit1" THEN "ran1" ELSE "ran2"
    /\ UNCHANGED << discovered_nodes, nodes_borrow, pending_sync, result, linkvars,
                    servicevars, queue, history >>

\* ------------------------------------------------------------------------
\* main, from the sync request on
\* ------------------------------------------------------------------------
\* lines 136-142: the sync request is sent, its number stored, the loop entered
Sync ==
    /\ pc = "start"
    /\ pending_sync' = Some(next_seq)
    /\ sync_state' = "requested"
    /\ sync_mark' = Len(history) + Len(queue)
    /\ pc' = "run1"
    /\ UNCHANGED << discovered_nodes, nodes_borrow, result, linkvars, next_seq,
                    queue, history >>

\* line 138: the sync request fails and main returns the error
SyncFails ==
    /\ pc = "start"
    /\ pc' = "exit_err"
    /\ result' = "SyncFailed"
    /\ UNCHANGED << discovered_nodes, nodes_borrow, pending_sync, linkvars,
                    servicevars, queue, history >>

\* lines 206-210: which way the if/else goes
mixer_outcome_swapped(inputs, outputs) ==
    IF inputs = << >> THEN "NoMatchingInput"
    ELSE IF outputs = << >> THEN "NoMatchingOutput"
    ELSE "Configure"

mixer_outcome_no_input_test(inputs, outputs) ==
    IF outputs = << >> THEN "NoMatchingOutput" ELSE "Configure"

mixer_outcome(inputs, outputs) ==
    IF outputs = << >> THEN "NoMatchingOutput"
    ELSE IF inputs = << >> THEN "NoMatchingInput"
    ELSE "Configure"

\* line 215
target_output_last(outputs) == outputs[Len(outputs)]

target_output(outputs) == outputs[1]

\* lines 147-222: the table is borrowed, sorted and filtered; either main
\* returns an error (which drops the borrow) or the pairing loops start
Planner ==
    /\ pc = "ran1"
    /\ \E sorted_nodes \in {sort_by_key(vals) : vals \in values(discovered_nodes)} :
          LET inputs       == selected_inputs(sorted_nodes)
              outputs      == selected_outputs(sorted_nodes)
              outcome      == mixer_outcome(inputs, outputs)
          IN  IF outcome = "Configure"
              THEN /\ pc' = "linking"
                   /\ nodes_borrow' = TRUE
                   /\ plan' = link_plan(inputs, target_output(outputs))
                   /\ next_pair' = 1
                   /\ UNCHANGED result
              ELSE /\ pc' = "exit_err"
                   /\ result' = outcome
                   /\ UNCHANGED << nodes_borrow, plan, next_pair >>
    /\ UNCHANGED << discovered_nodes, pending_sync, links, requests, servicevars,
                    queue, history >>

\* lines 262-267: what the Vec of proxies is after one create_object call
links_after_abort(held, ok, handle) == IF ok THEN Append(held, handle) ELSE << >>

links_after(held, ok, handle) == IF ok THEN Append(held, handle) ELSE held

\* lines 253-267: the request for the pair the loops are at; it succeeds or
\* fails, and the loops go on either way
CreateLink ==
    /\ pc = "linking"
    /\ next_pair <= Len(plan)
    /\ \E ok \in BOOLEAN :
          /\ requests' = Append(requests, [props |-> link_props(plan[next_pair]), ok |-> ok])
          /\ links' = links_after(links, ok, Len(requests) + 1)
    /\ next_pair' = next_pair + 1
    /\ UNCHANGED << pc, discovered_nodes, nodes_borrow, pending_sync, result, plan,
                    servicevars, queue, history >>

\* lines 273-276: the loops are over and the loop is entered again
Resume ==
    /\ pc = "linking"
    /\ next_pair > Len(plan)
    /\ pc' = "run2"
    /\ UNCHANGED << discovered_nodes, nodes_borrow, pending_sync, result, linkvars,
                    servicevars, queue, history >>

\* line 277: the second run has returned; main returns Ok and its locals
\* (the Ref, the proxies) are dropped
Return ==
    /\ pc = "ran2"
    /\ pc' = "exit_ok"
    /\ result' = "Ok"
    /\ nodes_borrow' = FALSE
    /\ links' = << >>
    /\ UNCHANGED << discovered_nodes, pending_sync, plan, next_pair, requests,
                    servicevars, queue, history >>

\* ------------------------------------------------------------------------
\* The service
\* ------------------------------------------------------------------------
Alive == pc \in {"start", "run1", "quit1", "ran1", "linking", "run2", "quit2", "ran2"}

\* everything the service has sent, in the order it sent it
Sent == history \o queue

\* whether the service has announced the object id and not removed it since
Announced(id) ==
    \E i \in 1..Len(Sent) :
        /\ Sent[i].kind = "global" /\ Sent[i].id = id
        /\ \A j \in (i + 1)..Len(Sent) : ~(Sent[j].kind = "global_remove" /\ Sent[j].id = id)

\* the service sends an event: it announces an object it has not announced,
\* removes one it has, or notifies a completion, which carries the number of
\* the client's sync only once that sync has been answered
ServiceEmit(ev) ==
    /\ Alive
    /\ Len(queue) < MaxQueue
    /\ Len(Sent) < MaxEmit + (IF sync_state = "replied" THEN 1 ELSE 0)
    /\ ev.kind = "global" => ~Announced(ev.id)
    /\ ev.kind = "global_remove" => Announced(ev.id)
    /\ ev.kind = "done" => (ev.seq # next_seq \/ sync_state = "replied")
    /\ queue' = Append(queue, ev)
    /\ UNCHANGED << pc, discovered_nodes, nodes_borrow, pending_sync, result,
                    linkvars, servicevars, history >>

\* the service answers the sync: done(seq) goes behind everything sent so far
ServiceReply ==
    /\ sync_state = "requested"
    /\ Len(queue) < MaxQueue
    /\ queue' = Append(queue, DoneEv(pending_sync[1]))
    /\ sync_state' = "replied"
    /\ UNCHANGED << pc, discovered_nodes, nodes_borrow, pending_sync, result,
                    linkvars, next_seq, sync_mark, history >>

\* the objects of the service in the runs of the whole program: a source and
\* a sink that qualify, one port of each, and an object of another type
SpecObjects ==
    { GlobalObject(1, "Node", Some(PropsSpdifIn)),
      GlobalObject(2, "Node", Some(PropsSpdifOut)),
      GlobalObject(3, "Port", Some(PropsPort(Some(to_string(1)), "FL", "out"))),
      GlobalObject(4, "Port", Some(PropsPort(Some(to_string(2)), "FL", "in"))),
      GlobalObject(5, "Link", Some(NoProps)) }

SpecEvents ==
    {GlobalEv(obj) : obj \in SpecObjects}
    \cup {RemoveEv(id) : id \in {1, 2}}
    \cup {DoneEv(seq) : seq \in Seqs}

Next ==
    \/ \E ev \in SpecEvents : ServiceEmit(ev)
    \/ ServiceReply
    \/ Sync
    \/ SyncFails
    \/ DispatchGlobal
    \/ DispatchGlobalRemove
    \/ DispatchDone
    \/ RunReturns
    \/ Planner
    \/ CreateLink
    \/ Resume
    \/ Return

Spec == Init /\ [][Next]_vars

\* ------------------------------------------------------------------------
\* SpecReplay: the registry listener alone.  main is in its first run (the
\* sync has been sent, nothing has been delivered yet) and any sequence of at
\* most MaxEvents announcements and removals is delivered to the callbacks.
\* ------------------------------------------------------------------------
InitReplay ==
    /\ pc = "run1"
    /\ discovered_nodes = EmptyMap
    /\ nodes_borrow = FALSE
    /\ pending_sync = Some(1)
    /\ links = << >>
    /\ result = "none"
    /\ plan = << >>
    /\ next_pair = 1
    /\ requests = << >>
    /\ next_seq = 1
    /\ sync_state = "requested"
    /\ queue = << >>
    /\ history = << >>
    /\ sync_mark = 0

\* endpoints 1 and 2, announced as a source or as a sink, or with no
\* property dictionary at all
ReplayNodes ==
    {GlobalObject(id, "Node", Some(props)) : id \in {1, 2}, props \in {PropsSpdifIn, PropsSpdifOut}}
    \cup {GlobalObject(1, "Node", None)}

\* ports 3 and 4, each naming endpoint 1 or 2 as its parent
ReplayPorts ==
    {GlobalObject(id, "Port", Some(PropsPort(Some(to_string(parent)), "FL", "out"))) :
        id \in {3, 4}, parent \in {1, 2}}

\* port 3 with a parent id that is no number, with none, with no dictionary
ReplayOrphans ==
    { GlobalObject(3, "Port", Some(PropsPort(Some(STR_x), "FL", "out"))),
      GlobalObject(3, "Port", Some(PropsPort(None, "FL", "out"))),
      GlobalObject(3, "Port", None) }

ReplayObjects == ReplayNodes \cup ReplayPorts \cup ReplayOrphans

\* removal of an endpoint id, or of a port id
ReplayRemovals == {1, 2, 3}

ReplayGlobal(obj) ==
    /\ pc = "run1"
    /\ Len(history) < MaxEvents
    /\ global(obj)
    /\ UNCHANGED queue

ReplayGlobalRemove(id) ==
    /\ pc = "run1"
    /\ Len(history) < MaxEvents
    /\ global_remove(id)
    /\ UNCHANGED queue

NextReplay ==
    \/ \E obj \in ReplayObjects : ReplayGlobal(obj)
    \/ \E id \in ReplayRemovals : ReplayGlobalRemove(id)

SpecReplay == InitReplay /\ [][NextReplay]_vars

\* ------------------------------------------------------------------------
\* SpecReorder: the registry listener alone, as SpecReplay, fed with the
\* events whose order matters for the set of endpoints: endpoint 1 announced
\* with a property dictionary (as a source or as a sink) or without one,
\* endpoint 2, port 3 of endpoint 1, and the removals of 1 and of 2.
\* ------------------------------------------------------------------------
ReorderObjects ==
    { GlobalObject(1, "Node", Some(PropsSpdifIn)),
      GlobalObject(1, "Node", Some(PropsSpdifOut)),
      GlobalObject(1, "Node", None),
      GlobalObject(2, "Node", Some(PropsSpdifOut)),
      GlobalObject(3, "Port", Some(PropsPort(Some(to_string(1)), "FL", "out"))) }

ReorderRemovals == {1, 2}

NextReorder ==
    \/ \E obj \in ReorderObjects : ReplayGlobal(obj)
    \/ \E id \in ReorderRemovals : ReplayGlobalRemove(id)

SpecReorder == InitReplay /\ [][NextReorder]_vars

\* ------------------------------------------------------------------------
\* SpecPlan: selection, pairing and linking alone.  The first run has just
\* returned (line 143) and the table is any table of endpoints 1, 2 and 3
\* that holds at most MaxPorts ports; events are not followed here, so the
\* history starts empty.
\* ------------------------------------------------------------------------
PlanIds == {1, 2, 3}

\* a qualifying input, a qualifying output, an input that is no SPDIF device,
\* and an endpoint of unknown description and class
PlanProps == {PropsSpdifIn, PropsSpdifOut, PropsHdmiIn, NoProps}

\* what a port of the table was announced with: a channel, one of two names
\* that differ only in case, and a direction
PlanPortProps ==
    {PropsPort(None, channel, dir) : channel \in {"FL", "fl"}, dir \in {"out", "in"}}

\* the ports of endpoint id announced with the properties `announced`, in
\* that order; the k-th port of endpoint id has the port id 10 * id + k
PlanPortList(id, announced) ==
    [k \in 1..Len(announced) |-> NewPort(10 * id + k, announced[k])]

\* the entry of endpoint id made from props, with the given ports
PlanEntry(id, props, announced) ==
    [NewNodeInfo(id, props) EXCEPT !.ports = PlanPortList(id, announced)]

\* the table of the endpoints that have a kind, each with its ports
PlanTable(kinds, announced) ==
    [id \in {i \in PlanIds : is_some(kinds[i])} |->
        PlanEntry(id, kinds[id][1], announced[id])]

\* how many ports an endpoint may get when `left` are left: none if absent
PortCounts(kind, left) == IF is_some(kind) THEN 0..left ELSE {0}

InitPlan ==
    /\ pc = "ran1"
    /\ \E kinds \in [PlanIds -> {None} \cup {Some(props) : props \in PlanProps}] :
       \E n1 \in PortCounts(kinds[1], MaxPorts) :
       \E n2 \in PortCounts(kinds[2], MaxPorts - n1) :
       \E n3 \in PortCounts(kinds[3], MaxPorts - n1 - n2) :
       \E a1 \in [1..n1 -> PlanPortProps] :
       \E a2 \in [1..n2 -> PlanPortProps] :
       \E a3 \in [1..n3 -> PlanPortProps] :
          discovered_nodes = PlanTable(kinds, << a1, a2, a3 >>)
    /\ nodes_borrow = FALSE
    /\ pending_sync = Some(1)
    /\ links = << >>
    /\ result = "none"
    /\ plan = << >>
    /\ next_pair = 1
    /\ requests = << >>
    /\ next_seq = 1
    /\ sync_state = "replied"
    /\ queue = << >>
    /\ history = << >>
    /\ sync_mark = 0

NextPlan ==
    \/ Planner
    \/ CreateLink
    \/ Resume

SpecPlan == InitPlan /\ [][NextPlan]_vars

\* ------------------------------------------------------------------------
\* SpecScenario: a source 10 with the ports 1 (FL) and 2 (FR) and a sink 20
\* with the ports 3 (FL) and 4 (FR).  main is in its first run; the six
\* objects are announced, each at most once and in any order, the completion
\* notification arrives at any time, and main goes on to plan and link.
\* ------------------------------------------------------------------------
STR_SPDIF_OUT == << "S","P","D","I","F"," ","O","U","T" >>

PropsScenarioIn  == [NoProps EXCEPT !.node_description = Some(STR_SPDIF_IN),
                                    !.media_class = Some(STR_Audio_Source)]
PropsScenarioOut == [NoProps EXCEPT !.node_description = Some(STR_SPDIF_OUT),
                                    !.media_class = Some(STR_Audio_Sink)]

ScenarioObjects ==
    { GlobalObject(10, "Node", Some(PropsScenarioIn)),
      GlobalObject(20, "Node", Some(PropsScenarioOut)),
      GlobalObject(1, "Port", Some(PropsPort(Some(to_string(10)), "FL", "out"))),
      GlobalObject(2, "Port", Some(PropsPort(Some(to_string(10)), "FR", "out"))),
      GlobalObject(3, "Port", Some(PropsPort(Some(to_string(20)), "FL", "in"))),
      GlobalObject(4, "Port", Some(PropsPort(Some(to_string(20)), "FR", "in"))) }

ScenarioGlobal(obj) ==
    /\ InFirstRun
    /\ \A i \in 1..Len(history) : history[i] # GlobalEv(obj)
    /\ global(obj)
    /\ UNCHANGED queue

\* the notification that answers the sync of line 137 is dispatched
ScenarioDone ==
    /\ pc = "run1"
    /\ done(pending_sync[1])
    /\ UNCHANGED queue

NextScenario ==
    \/ \E obj \in ScenarioObjects : ScenarioGlobal(obj)
    \/ ScenarioDone
    \/ RunReturns
    \/ Planner
    \/ CreateLink
    \/ Resume

SpecScenario == InitReplay /\ [][NextScenario]_vars

\* ------------------------------------------------------------------------
\* SpecRediscover: the source 1 with its port 3 and the sink 2 with its port
\* 4, as in Spec, but the service announces a port up to MaxRepeat times.
\* main is in its first run; the completion notification arrives at any
\* time, and main goes on to plan and link.
\* ------------------------------------------------------------------------
RediscoverObjects == {obj \in SpecObjects : obj.type_ \in {"Node", "Port"}}

\* how many times obj has been announced
TimesAnnounced(obj) == Cardinality({i \in 1..Len(history) : history[i] = GlobalEv(obj)})

RediscoverGlobal(obj) ==
    /\ InFirstRun
    /\ TimesAnnounced(obj) < (IF obj.type_ = "Port" THEN MaxRepeat ELSE 1)
    /\ global(obj)
    /\ UNCHANGED queue

NextRediscover ==
    \/ \E obj \in RediscoverObjects : RediscoverGlobal(obj)
    \/ ScenarioDone
    \/ RunReturns
    \/ Planner
    \/ CreateLink
    \/ Resume

SpecRediscover == InitReplay /\ [][NextRediscover]_vars

\* ------------------------------------------------------------------------
\* What a sequence of events says, read off the history
\* ------------------------------------------------------------------------
\* an endpoint announcement for id that carries a property dictionary
IsEndpointAnnounce(ev, id) ==
    /\ ev.kind = "global" /\ ev.id = id
    /\ ev.obj[1].type_ = "Node" /\ is_some(ev.obj[1].props)

IsRemoval(ev, id) == ev.kind = "global_remove" /\ ev.id = id

\* a port announcement whose parent-id property is the decimal form of id
IsPortOf(ev, id) ==
    /\ ev.kind = "global" /\ ev.obj[1].type_ = "Port"
    /\ is_some(ev.obj[1].props)
    /\ ev.obj[1].props[1].node_id = Some(to_string(id))

\* a port announcement whose parent id is missing or is no unsigned integer
IsOrphanPort(ev) ==
    /\ ev.kind = "global" /\ ev.obj[1].type_ = "Port"
    /\ \/ ~is_some(ev.obj[1].props)
       \/ ev.obj[1].props[1].node_id = None
       \/ ev.obj[1].props[1].node_id = Some(STR_x)

EventIds == {1, 2, 3, 4}

\* positions of the announcements of id that no removal of id follows
Unremoved(id) ==
    {i \in 1..Len(history) :
        /\ IsEndpointAnnounce(history[i], id)
        /\ \A j \in (i + 1)..Len(history) : ~IsRemoval(history[j], id)}

\* whether id had been announced, and not removed since, before position j
PresentBefore(id, j) ==
    \E i \in 1..(j - 1) :
        /\ IsEndpointAnnounce(history[i], id)
        /\ \A k \in (i + 1)..(j - 1) : ~IsRemoval(history[k], id)

Positions == [j \in 1..Len(history) |-> j]

PortAt(j) == NewPort(history[j].id, history[j].obj[1].props[1])

PortsAt(js) == [k \in 1..Len(js) |-> PortAt(js[k])]

\* the ports that named id while it was present, at any time
PortsEverResolved(id) ==
    PortsAt(SelectSeq(Positions, LAMBDA j : IsPortOf(history[j], id) /\ PresentBefore(id, j)))

\* the ports that named id since the announcement that created its entry
PortsSinceCreation(id) ==
    LET created == CHOOSE i \in Unremoved(id) : \A k \in Unremoved(id) : i <= k
    IN  PortsAt(SelectSeq(Positions, LAMBDA j : j > created /\ IsPortOf(history[j], id)))

\* C1 as stated: after any replay the table holds exactly the endpoints with
\* no removal after their announcement, each with exactly the ports that named
\* it as parent at a time it was present.
C1_ReplayAsStated ==
    /\ DOMAIN discovered_nodes = {id \in EventIds : Unremoved(id) # {}}
    /\ \A id \in DOMAIN discovered_nodes :
          discovered_nodes[id].ports = PortsEverResolved(id)

\* C1 amended: after any replay the table holds exactly the endpoints with no
\* removal after their announcement, each with exactly the ports that named it
\* as parent since the announcement that created the entry it has now; the
\* ports an endpoint had before a removal are gone when it is announced again.
C1_ReplayTable ==
    /\ DOMAIN discovered_nodes = {id \in EventIds : Unremoved(id) # {}}
    /\ \A id \in DOMAIN discovered_nodes :
          discovered_nodes[id].ports = PortsSinceCreation(id)

\* an endpoint that was removed and announced again has got a port since
C1_Witness ==
    \E id \in DOMAIN discovered_nodes :
        /\ discovered_nodes[id].ports # << >>
        /\ \E i, j \in 1..Len(history) :
              /\ i < j
              /\ IsRemoval(history[i], id)
              /\ IsEndpointAnnounce(history[j], id)
              /\ \E h \in 1..(i - 1) : IsEndpointAnnounce(history[h], id)

\* the event the step delivers, when it delivers one
Delivers == Len(history') = Len(history) + 1
Delivered == history'[Len(history')]

\* C2: announcing an endpoint id that is in the table changes nothing in the
\* table, whatever the announcement carries.
C2_AnnounceTwice ==
    [][ (Delivers /\ Delivered.kind = "global" /\ Delivered.obj[1].type_ = "Node"
            /\ Delivered.id \in DOMAIN discovered_nodes)
        => discovered_nodes' = discovered_nodes ]_vars

\* an endpoint that has a port has just been announced again, with other
\* properties than the ones its entry was made from
C2_Witness ==
    /\ history # << >>
    /\ LET ev == history[Len(history)]
       IN  /\ ev.id \in DOMAIN discovered_nodes
           /\ IsEndpointAnnounce(ev, ev.id)
           /\ discovered_nodes[ev.id].ports # << >>
           /\ NewNodeInfo(ev.id, ev.obj[1].props[1]).description
                 # discovered_nodes[ev.id].description

\* C10: a port announcement whose parent id is missing or is no unsigned
\* integer leaves the table as it was.
C10_OrphanPortDropped ==
    [][ (Delivers /\ IsOrphanPort(Delivered)) => discovered_nodes' = discovered_nodes ]_vars

\* such a port has just been announced while endpoint 1 had a port
C10_Witness ==
    /\ history # << >>
    /\ IsOrphanPort(history[Len(history)])
    /\ history[Len(history)].obj[1].props # None
    /\ history[Len(history)].obj[1].props[1].node_id = Some(STR_x)
    /\ 1 \in DOMAIN discovered_nodes
    /\ discovered_nodes[1].ports # << >>

\* ------------------------------------------------------------------------
\* The completion barrier (Spec)
\* ------------------------------------------------------------------------
\* C3: in the first run a completion notification asks the loop to stop
\* exactly when its sequence number is the stored marker; otherwise the run
\* goes on; and the first run returns only after it was asked to stop.
C3_DoneStopsOnMatch ==
    [][ /\ (pc = "run1" /\ Delivers /\ Delivered.kind = "done")
           => /\ (pc' = "quit1") <=> (pending_sync = Some(Delivered.seq))
              /\ pc' \in {"run1", "quit1"}
        /\ (pc' = "ran1" /\ pc # "ran1") => pc = "quit1"
        /\ (pc = "quit1" /\ pc' # "quit1") => pc' = "ran1" ]_vars

\* the first run has stopped, after a notification with another number had
\* been delivered and had not stopped it
C3_Witness ==
    /\ pc = "ran1"
    /\ \E k \in 1..Len(history) :
          /\ history[k] = DoneEv(pending_sync[1])
          /\ \E i \in 1..(k - 1) :
                history[i].kind = "done" /\ history[i].seq # pending_sync[1]

\* main is past the first run
PastFirstRun == pc \in {"ran1", "linking", "run2", "quit2", "ran2", "exit_ok"} \/ result \in {"NoMatchingOutput", "NoMatchingInput", "BorrowMutError"}

\* C4: when the first run stops, on the matching notification, every event
\* the service sent before the sync request has been delivered and the table
\* is what those deliveries make it; the table is borrowed for reading, and
\* links are requested, only after that.
C4_SnapshotComplete ==
    /\ pc = "ran1" =>
          /\ Len(history) > sync_mark
          /\ \E k \in (sync_mark + 1)..Len(history) : history[k] = DoneEv(pending_sync[1])
          /\ DOMAIN discovered_nodes = {id \in EventIds : Unremoved(id) # {}}
          /\ \A id \in DOMAIN discovered_nodes :
                discovered_nodes[id].ports = PortsSinceCreation(id)
    /\ PastFirstRun => Len(history) > sync_mark
    /\ ~PastFirstRun => (~nodes_borrow /\ requests = << >> /\ plan = << >>)

\* the first run has stopped; two events were sent before the sync request,
\* one of them made an endpoint, and events sent later are still waiting
C4_Witness ==
    /\ pc = "ran1"
    /\ sync_mark = 2
    /\ DOMAIN discovered_nodes # {}
    /\ queue # << >>

\* C5 as stated: an event delivered in the second run is handled as in the
\* first, so no delivery ends in a borrow error.
C5_ResumedEventsHandled == result # "BorrowMutError"

\* ------------------------------------------------------------------------
\* Selection, pairing and linking (SpecPlan)
\* ------------------------------------------------------------------------
QualifiedInputs == {id \in DOMAIN discovered_nodes : SelInput(discovered_nodes[id])}
QualifiedOutputs == {id \in DOMAIN discovered_nodes : SelOutput(discovered_nodes[id])}

\* the qualifying output of lowest id
LowestOutput == CHOOSE id \in QualifiedOutputs : \A other \in QualifiedOutputs : id <= other

\* the loops of lines 225-272 have started
Configured == pc \in {"linking", "run2", "quit2", "ran2"}

Channels == {"FL", "fl", "FR", STR_unknown}

\* positions of the ports of endpoint id with the given label and direction
PortsLike(id, label, dir) ==
    {k \in 1..Len(discovered_nodes[id].ports) :
        discovered_nodes[id].ports[k][2] = label /\ discovered_nodes[id].ports[k][3] = dir}

\* positions of the pairs of the plan that go out of endpoint id with label
PairsLike(id, label) == {k \in 1..Len(plan) : plan[k][1] = id /\ plan[k][3] = label}

\* C6 as stated: when a selected input has an out port labelled L and the
\* target has an in port labelled L, the plan has exactly one pair for L
\* between the two.
C6_OnePairPerLabel ==
    Configured =>
        \A id \in QualifiedInputs : \A label \in Channels :
            (PortsLike(id, label, DIR_out) # {} /\ PortsLike(LowestOutput, label, DIR_in) # {})
            => Cardinality(PairsLike(id, label)) = 1

\* C6 amended: when the target has an in port labelled L, the plan has one
\* pair for L per out port labelled L of the selected input (exactly one when
\* the input has a single such port), each to an in port labelled L of the
\* target; ports of other labels or of the other direction add none.  When
\* the target has no in port labelled L the plan has no pair for L.
C6_OnePairPerSourcePort ==
    Configured =>
        \A id \in QualifiedInputs : \A label \in Channels :
            /\ Cardinality(PairsLike(id, label)) =
                  IF PortsLike(LowestOutput, label, DIR_in) # {}
                  THEN Cardinality(PortsLike(id, label, DIR_out))
                  ELSE 0
            /\ \A k \in PairsLike(id, label) :
                  /\ plan[k][4] = LowestOutput
                  /\ \E j \in PortsLike(LowestOutput, label, DIR_in) :
                        discovered_nodes[LowestOutput].ports[j][1] = plan[k][5]

\* a selected input with a single out port labelled FL among other ports, and
\* exactly one pair for FL in the plan
C6_Witness ==
    /\ Configured
    /\ \E id \in QualifiedInputs :
          /\ Cardinality(PortsLike(id, "FL", DIR_out)) = 1
          /\ Len(discovered_nodes[id].ports) >= 2
          /\ Cardinality(PairsLike(id, "FL")) = 1

\* C7: with no qualifying output the outcome is NoMatchingOutput, whether or
\* not an input qualifies; it is NoMatchingInput exactly when an output
\* qualifies and no input does; otherwise the mixer is configured.
C7_Outcome ==
    pc # "ran1" =>
        /\ QualifiedOutputs = {} => (pc = "exit_err" /\ result = "NoMatchingOutput")
        /\ (result = "NoMatchingInput") <=> (QualifiedOutputs # {} /\ QualifiedInputs = {})
        /\ result = "NoMatchingInput" => pc = "exit_err"
        /\ (QualifiedOutputs # {} /\ QualifiedInputs # {}) => (Configured /\ result = "none")

\* NoMatchingInput with an output that qualifies and an endpoint that is an
\* input by its class but does not qualify
C7_Witness ==
    /\ pc = "exit_err" /\ result = "NoMatchingInput"
    /\ QualifiedOutputs # {}
    /\ \E id \in DOMAIN discovered_nodes : discovered_nodes[id].input

\* C8: every pair of the plan and every link request names the qualifying
\* output of lowest id as destination node.
C8_LowestOutputTargeted ==
    Configured =>
        /\ \A k \in 1..Len(plan) : plan[k][4] = LowestOutput
        /\ \A k \in 1..Len(requests) :
              parse_u32(requests[k].props.link_input_node) = Some(LowestOutput)

\* two outputs qualify, both have an in port, and a link has been requested
C8_Witness ==
    /\ Configured
    /\ requests # << >>
    /\ \E other \in QualifiedOutputs :
          /\ other # LowestOutput
          /\ PortsLike(other, "FL", DIR_in) # {}
          /\ PortsLike(LowestOutput, "FL", DIR_in) # {}

RequestPositions == [k \in 1..Len(requests) |-> k]

\* C9: the requests are issued for the pairs of the plan in order, each with
\* the four ids of its pair and passive=false, whatever the outcome of the
\* requests before it; the retained vector holds the handles of exactly the
\* requests that succeeded; when the loop is resumed every pair has had its
\* request.
C9_RequestsIndependent ==
    pc \in {"linking", "run2"} =>
        /\ Len(requests) = next_pair - 1
        /\ Len(requests) <= Len(plan)
        /\ \A k \in 1..Len(requests) :
              /\ parse_u32(requests[k].props.link_output_node) = Some(plan[k][1])
              /\ parse_u32(requests[k].props.link_output_port) = Some(plan[k][2])
              /\ parse_u32(requests[k].props.link_input_node) = Some(plan[k][4])
              /\ parse_u32(requests[k].props.link_input_port) = Some(plan[k][5])
              /\ requests[k].props.link_passive = STR_false
        /\ links = SelectSeq(RequestPositions, LAMBDA k : requests[k].ok)
        /\ pc = "run2" => Len(requests) = Len(plan)

\* the loop is resumed after a request that failed and a later one that
\* succeeded
C9_Witness ==
    /\ pc = "run2"
    /\ \E i, j \in 1..Len(requests) : i < j /\ ~requests[i].ok /\ requests[j].ok
    /\ Len(links) = 1

\* ------------------------------------------------------------------------
\* The worked scenario (SpecScenario)
\* ------------------------------------------------------------------------
\* the table of the scenario: endpoint 10, Audio/Source, "SPDIF IN", ports
\* (1,FL,out),(2,FR,out); endpoint 20, Audio/Sink, "SPDIF OUT", ports
\* (3,FL,in),(4,FR,in)
ScenarioStore ==
    [id \in {10, 20} |->
        IF id = 10
        THEN [global_id |-> 10, description |-> STR_SPDIF_IN,
              media_class |-> STR_Audio_Source, input |-> TRUE,
              ports |-> << << 1, "FL", "out" >>, << 2, "FR", "out" >> >>]
        ELSE [global_id |-> 20, description |-> STR_SPDIF_OUT,
              media_class |-> STR_Audio_Sink, input |-> FALSE,
              ports |-> << << 3, "FL", "in" >>, << 4, "FR", "in" >> >>]]

ScenarioPlan == << << 10, 1, "FL", 20, 3 >>, << 10, 2, "FR", 20, 4 >> >>

\* C11: when the table is the table of the scenario, the plan is exactly the
\* pair (10,1,FL)->(20,3) followed by the pair (10,2,FR)->(20,4): nothing
\* else, and no pair from FL to FR or from FR to FL; the requests issued are
\* for these pairs, in this order.
C11_ScenarioPlan ==
    (Configured /\ discovered_nodes = ScenarioStore) =>
        /\ plan = ScenarioPlan
        /\ \A k \in 1..Len(requests) : requests[k].props = link_props(ScenarioPlan[k])

\* the table is the table of the scenario and both links have been requested
C11_Witness ==
    /\ pc = "run2"
    /\ discovered_nodes = ScenarioStore
    /\ Len(requests) = 2
    /\ Len(links) = 2

\* ------------------------------------------------------------------------
\* Order of the announcements (SpecReorder)
\* ------------------------------------------------------------------------
\* the orders of n events
OrdersOfLength == [n \in 0..MaxEvents |-> Orders(1..n)]

\* the orders of the history that keep every removal at its position
Rearrangements ==
    {p \in OrdersOfLength[Len(history)] :
        \A k \in 1..Len(history) : history[k].kind = "global_remove" => p[k] = k}

\* the history with its announcements in the order p
Rearranged(p) == [k \in 1..Len(history) |-> history[p[k]]]

\* what the event is to the endpoint id
Mark(ev, id) ==
    IF IsEndpointAnnounce(ev, id) THEN "announce"
    ELSE IF IsRemoval(ev, id) THEN "remove"
    ELSE "other"

\* the announcements of the endpoint id that carry properties and the
\* removals of id, in the order they have in h
OwnOrder(h, id) ==
    SelectSeq([k \in 1..Len(h) |-> Mark(h[k], id)], LAMBDA m : m # "other")

\* no announcement of an endpoint is on another side of a removal of its own
\* id in h than in the history (announcements of one endpoint may change
\* places with each other)
KeepsOwnOrder(h) == \A id \in EventIds : OwnOrder(h, id) = OwnOrder(history, id)

\* C12 as stated: every order of the announcements of the replayed sequence,
\* the removals staying where they are, ends with the same set of endpoint
\* ids.
C12_AnyOrderOfAnnouncements ==
    \A p \in Rearrangements :
        DOMAIN replay(Rearranged(p)) = DOMAIN discovered_nodes

\* C12 amended: an order of the announcements, the removals staying where
\* they are, ends with the same set of endpoint ids if, for every id, the
\* property-carrying announcements of that endpoint and the removals of that
\* id come in the same order as before; announcements may move across the
\* removals of other ids.  Moving an endpoint's announcement across a removal
\* of its own id can change the set: announce(1), remove(1), announce(2) ends
\* with {2}, and announce(2), remove(1), announce(1) ends with {1, 2}; while
\* announce(1), remove(2), announce(port of 1) and its reverse both end
\* with {1}.
C12_OrderUnlessAcrossOwnRemoval ==
    /\ \A p \in Rearrangements :
          KeepsOwnOrder(Rearranged(p)) =>
              DOMAIN replay(Rearranged(p)) = DOMAIN discovered_nodes
    /\ LET n1 == GlobalEv(GlobalObject(1, "Node", Some(PropsSpdifIn)))
           n2 == GlobalEv(GlobalObject(2, "Node", Some(PropsSpdifOut)))
           p3 == GlobalEv(GlobalObject(3, "Port", Some(PropsPort(Some(to_string(1)), "FL", "out"))))
       IN  /\ history = << n1, RemoveEv(1), n2 >> =>
                 /\ DOMAIN discovered_nodes = {2}
                 /\ Rearranged(<< 3, 2, 1 >>) = << n2, RemoveEv(1), n1 >>
                 /\ DOMAIN replay(Rearranged(<< 3, 2, 1 >>)) = {1, 2}
           /\ history = << n1, RemoveEv(2), p3 >> =>
                 /\ DOMAIN discovered_nodes = {1}
                 /\ Rearranged(<< 3, 2, 1 >>) = << p3, RemoveEv(2), n1 >>
                 /\ DOMAIN replay(Rearranged(<< 3, 2, 1 >>)) = {1}

\* endpoint 2 was announced and removed; the announcement of endpoint 1, from
\* before that removal, and the announcement of its port, from after it,
\* change places.  Every endpoint stays on its side of its own removals, and
\* the table holds endpoint 1 either way, but port 3 is listed only in the
\* order that was replayed.
C12_Witness ==
    \E p \in Rearrangements :
        /\ KeepsOwnOrder(Rearranged(p))
        /\ \E a, i, r, j \in 1..Len(history) :
              /\ a < r /\ i < r /\ r < j
              /\ IsEndpointAnnounce(history[a], 2)
              /\ IsEndpointAnnounce(history[i], 1)
              /\ IsRemoval(history[r], 2)
              /\ IsPortOf(history[j], 1)
              /\ p[j] = i /\ p[i] = j
        /\ DOMAIN discovered_nodes = {1}
        /\ DOMAIN replay(Rearranged(p)) = {1}
        /\ discovered_nodes[1].ports # << >>
        /\ replay(Rearranged(p))[1].ports = << >>

\* ------------------------------------------------------------------------
\* Ports without a parent, and removals (SpecReplay)
\* ------------------------------------------------------------------------
ParentIds == {1, 2}
PortIds == {3, 4}

\* the announcement at position j is a port naming an endpoint that was not
\* in the table then: not announced yet, or removed
DroppedAt(j) == \E id \in ParentIds : IsPortOf(history[j], id) /\ ~PresentBefore(id, j)

\* the history without the port announcements that found no parent
WithoutDropped == SelectSeq(Positions, LAMBDA j : ~DroppedAt(j))

HistoryWithoutDropped == [k \in 1..Len(WithoutDropped) |-> history[WithoutDropped[k]]]

\* the port ids in the port lists of the table
ListedPorts ==
    UNION {{discovered_nodes[id].ports[k][1] : k \in 1..Len(discovered_nodes[id].ports)} :
              id \in DOMAIN discovered_nodes}

\* the positions at which port x is announced
AnnouncedAt(x) ==
    {j \in 1..Len(history) :
        history[j].kind = "global" /\ history[j].id = x /\ history[j].obj[1].type_ = "Port"}

\* C15: a port announced while the endpoint it names is not in the table
\* (not announced yet, or removed) is dropped for good: the table is at all
\* times what it would be had these announcements never been made, whatever
\* came later, the announcement of the parent included; a port that was only
\* ever announced that way is in no port list.
C15_DroppedForGood ==
    /\ discovered_nodes = replay(HistoryWithoutDropped)
    /\ \A x \in PortIds :
          (\A j \in AnnouncedAt(x) : DroppedAt(j) \/ IsOrphanPort(history[j]))
          => x \notin ListedPorts

\* port 3 was announced for an endpoint that was not there; the endpoint was
\* announced afterwards and has got another port since, but not port 3
C15_Witness ==
    \E id \in DOMAIN discovered_nodes :
        /\ AnnouncedAt(3) # {}
        /\ \A j \in AnnouncedAt(3) : IsPortOf(history[j], id) /\ DroppedAt(j)
        /\ \E j \in AnnouncedAt(3) : \E h \in (j + 1)..Len(history) :
              IsEndpointAnnounce(history[h], id)
        /\ discovered_nodes[id].ports # << >>
        /\ 3 \notin ListedPorts

\* C16: a removal deletes the entry whose key is the removed id and changes
\* nothing else: the other entries, port lists included, stay as they are,
\* and when the id is no key (an absent id, the id of a port) the table is
\* unchanged, so a port whose id is removed stays in its parent's list.
C16_RemovalFrame ==
    [][ (Delivers /\ Delivered.kind = "global_remove")
        => /\ DOMAIN discovered_nodes' = DOMAIN discovered_nodes \ {Delivered.id}
           /\ \A x \in DOMAIN discovered_nodes' : discovered_nodes'[x] = discovered_nodes[x]
           /\ Delivered.id \notin DOMAIN discovered_nodes
                 => discovered_nodes' = discovered_nodes ]_vars

\* the id of port 3 has just been removed; port 3 is in a port list and two
\* endpoints are in the table
C16_Witness ==
    /\ history # << >>
    /\ history[Len(history)] = RemoveEv(3)
    /\ 3 \in ListedPorts
    /\ Cardinality(DOMAIN discovered_nodes) = 2

\* ------------------------------------------------------------------------
\* The plan as a set, and self links (SpecPlan)
\* ------------------------------------------------------------------------
PortsOf(id) == discovered_nodes[id].ports

\* position of the first in port of the target labelled label, 0 if none
FirstInPort(label) ==
    IF PortsLike(LowestOutput, label, DIR_in) = {} THEN 0
    ELSE CHOOSE j \in PortsLike(LowestOutput, label, DIR_in) :
            \A other \in PortsLike(LowestOutput, label, DIR_in) : j <= other

\* the out ports of the selected inputs whose label an in port of the target
\* has, as << endpoint id, position in its port list >>
MatchedSourcePorts ==
    {ik \in UNION {{<< id, k >> : k \in 1..Len(PortsOf(id))} : id \in QualifiedInputs} :
        /\ PortsOf(ik[1])[ik[2]][3] = DIR_out
        /\ FirstInPort(PortsOf(ik[1])[ik[2]][2]) # 0}

\* one tuple for each of them, to the first in port of the target that has
\* the label
ExpectedPairs ==
    {<< ik[1], PortsOf(ik[1])[ik[2]][1], PortsOf(ik[1])[ik[2]][2], LowestOutput,
        PortsOf(LowestOutput)[FirstInPort(PortsOf(ik[1])[ik[2]][2])][1] >> :
        ik \in MatchedSourcePorts}

\* C13: on success the tuples of the plan are exactly these: one for every
\* selected input and every out port of it whose label, compared exactly, an
\* in port of the target has, the destination being the first such port of
\* the target; a source port without a match adds no tuple and stops nothing
\* after it; no tuple joins ports of different labels or other directions.
C13_PlanIsExactlyTheMatches ==
    Configured =>
        /\ {plan[k] : k \in 1..Len(plan)} = ExpectedPairs
        /\ Len(plan) = Cardinality(MatchedSourcePorts)

\* the first out port of a selected input is labelled fl and the target has
\* no in port of that label, only one labelled FL; the second out port of the
\* input is labelled FL and is the one pair of the plan
C13_Witness ==
    /\ Configured
    /\ Len(plan) = 1
    /\ \E id \in QualifiedInputs :
          /\ Len(PortsOf(id)) = 2
          /\ PortsOf(id)[1] = << 10 * id + 1, "fl", DIR_out >>
          /\ PortsOf(id)[2] = << 10 * id + 2, "FL", DIR_out >>
          /\ PortsOf(LowestOutput) = << << 10 * LowestOutput + 1, "FL", DIR_in >> >>
          /\ plan[1] = << id, 10 * id + 2, "FL", LowestOutput, 10 * LowestOutput + 1 >>

\* C18: no endpoint qualifies both as input and as output, and every pair
\* of the plan and every link request goes from one endpoint to another.
C18_NoSelfLink ==
    /\ QualifiedInputs \cap QualifiedOutputs = {}
    /\ Configured =>
          /\ \A k \in 1..Len(plan) : plan[k][1] # plan[k][4]
          /\ \A k \in 1..Len(requests) :
                requests[k].props.link_output_node # requests[k].props.link_input_node

\* a link has been requested out of a selected input that also has an in
\* port of the label, and that has a lower id than the target
C18_Witness ==
    /\ Configured
    /\ requests # << >>
    /\ \E id \in QualifiedInputs :
          /\ id < LowestOutput
          /\ PairsLike(id, "FL") # {}
          /\ PortsLike(id, "FL", DIR_in) # {}

\* ------------------------------------------------------------------------
\* Failure of the selection, and the resumed loop (Spec)
\* ------------------------------------------------------------------------
SelectionErrors == {"NoMatchingOutput", "NoMatchingInput"}

\* C14: when main leaves the first run with no qualifying output or no
\* qualifying input, it ends with the selection error at once: no link has
\* been or is requested, the table is left as it was and is not borrowed,
\* the loop is not entered again, and nothing happens after that.
C14_SelectionFailureIsTerminal ==
    [][ /\ (pc = "ran1" /\ pc' # "ran1" /\ (QualifiedOutputs = {} \/ QualifiedInputs = {}))
           => /\ pc' = "exit_err"
              /\ result' \in SelectionErrors
              /\ requests' = << >> /\ links' = << >> /\ plan' = << >>
              /\ discovered_nodes' = discovered_nodes
              /\ ~nodes_borrow'
              /\ history' = history
        /\ result \in SelectionErrors => FALSE ]_vars

\* main has ended with NoMatchingInput; the table holds the output and an
\* event is left in the connection that will never be dispatched
C14_Witness ==
    /\ pc = "exit_err"
    /\ result = "NoMatchingInput"
    /\ DOMAIN discovered_nodes # {}
    /\ queue # << >>
    /\ requests = << >>

\* C17 as stated: the marker is set once, before the first run, and once it
\* has been matched no completion notification stops the loop again: the
\* second run never returns.
C17_ResumedLoopNeverStops ==
    /\ pc = "start" => pending_sync = None
    /\ pc \notin {"ran2", "exit_ok"}
    /\ result # "Ok"

\* ------------------------------------------------------------------------
\* Repeated links (SpecRediscover)
\* ------------------------------------------------------------------------
\* C19 as stated: whatever was announced, a port more than once included, no
\* two pairs of the plan have the same source port and destination port, and
\* no two link requests have the same source port.
C19_NoLinkTwice ==
    Configured =>
        /\ \A i, j \in 1..Len(plan) :
              (plan[i][2] = plan[j][2] /\ plan[i][5] = plan[j][5]) => i = j
        /\ \A i, j \in 1..Len(requests) :
              requests[i].props.link_output_port = requests[j].props.link_output_port
              => i = j

=============================================================================
